---- MODULE Spec2Model ----
(***************************************************************************)
(* Emergency dispatch agent: fleet registry (ambulance / fire / police),   *)
(* dispatch engine and conversation phase machine.                         *)
(*                                                                         *)
(* The three service categories live in three separate SQLite databases    *)
(* and never touch each other's rows, so a behaviour of this model follows *)
(* one category, chosen in Init (variable cat).                            *)
(*                                                                         *)
(* Every tool function opens its own connection.  A SELECT runs outside    *)
(* any transaction; the UPDATE/INSERT statements up to commit() form one   *)
(* write transaction, which SQLite serialises against other writers.  A    *)
(* tool call is therefore a sequence of atomic steps: each SELECT, and     *)
(* each write transaction.  Calls of different sessions interleave between *)
(* those steps (the streaming endpoint runs the tool loop in worker        *)
(* threads).                                                               *)
(*                                                                         *)
(* Distances are kept in millimetres (integers); distance_km, the value    *)
(* rounded to two decimals, is kept in hundredths of a kilometre.          *)
(***************************************************************************)
EXTENDS Integers, Sequences, FiniteSets, TLC

\* ------------------------------------------------------------------ bounds
MaxDispatches == 2
MaxSessionDispatches == 2
MaxToolCalls == 2
CounterSlack == 1

\* ------------------------------------------------------- program constants
AmbulanceNearestRadiusKm == 50
FireNearestRadiusKm == 30
PoliceNearestRadiusKm == 20
FireMultipleRadiusKm == 50
PoliceMultipleRadiusKm == 30
AmbulanceDefaultRadiusKm == 10
MAX_TOOL_ITERATIONS == 5

Cats == {"ambulance", "fire", "police"}
\* two sessions issue tool calls concurrently
Threads == {1, 2}

\* ------------------------------------------------------------ seeded fleet
SeedAmbulanceStatus ==
  << "available", "available", "busy", "available",
     "available", "maintenance", "available", "available" >>
SeedAmbulanceType ==
  << "advanced", "basic", "advanced", "icu", "basic", "basic", "advanced", "icu" >>

SeedStationAvailable == << 3, 2, 2, 1, 2 >>
SeedStationTotal == << 4, 3, 2, 3, 2 >>
SeedTruckStation == << 1, 1, 1, 2, 2, 3, 3, 4, 5, 5 >>
SeedTruckType ==
  << "water_tender", "ladder", "rescue", "water_tender", "standard",
     "water_tender", "standard", "water_tender", "standard", "rescue" >>
SeedTruckStatus ==
  << "available", "available", "busy", "available", "available",
     "available", "maintenance", "available", "available", "available" >>

SeedPatrolType ==
  << "patrol", "rapid_response", "patrol", "patrol",
     "patrol", "patrol", "rapid_response", "patrol" >>
SeedPatrolStatus ==
  << "available", "available", "busy", "available",
     "available", "available", "available", "available" >>

SeedStatus(c) ==
  CASE c = "ambulance" -> SeedAmbulanceStatus
    [] c = "fire" -> SeedTruckStatus
    [] c = "police" -> SeedPatrolStatus

UnitType(c) ==
  CASE c = "ambulance" -> SeedAmbulanceType
    [] c = "fire" -> SeedTruckType
    [] c = "police" -> SeedPatrolType

UnitIds(c) == DOMAIN SeedStatus(c)

ValidStatuses(c) ==
  IF c = "police" THEN {"available", "busy", "dispatched"}
  ELSE {"available", "busy", "dispatched", "maintenance"}

\* status written into a dispatch record by the complete operation
ResolvedStatus(c) == IF c = "ambulance" THEN "completed" ELSE "resolved"

\* ------------------------------------------------------ distance and ETA
\* Caller locations used as inputs: a point between ambulances 2 and 7 and a
\* point about 125 km away (the table also covers the city centre).
Points == {"P_TIE", "P_FAR"}

\* calculate_distance(point, unit location) in millimetres, evaluated with
\* the haversine formula of the source for
\*   P_CENTRE = (12.9716, 77.5946), P_TIE = (12.936315, 77.61765),
\*   P_FAR = (12.2958, 76.6394)
\* against the seeded coordinates (a fire truck is located at its station).
calculate_distance(c, p, u) ==
  LET amb == [ P_CENTRE |-> << 0, 5184651, 6177702, 16839989, 2632320, 5208820, 5382702, 9108349 >>,
               P_TIE |-> << 4651132, 752637, 2787165, 14817598, 6857267, 3279993, 746954, 4566658 >>,
               P_FAR |-> << 128016856, 128378453, 125188751, 141907351, 126423615, 124613158, 127652740, 129192973 >> ]
      fire == [ P_CENTRE |-> << 0, 0, 0, 5184651, 5184651, 16839989, 16839989, 5208820, 15716319, 15716319 >>,
                P_TIE |-> << 4651132, 4651132, 4651132, 752637, 752637, 14817598, 14817598, 3279993, 11095948, 11095948 >>,
                P_FAR |-> << 128016856, 128016856, 128016856, 128378453, 128378453, 141907351, 141907351, 124613158, 126544377, 126544377 >> ]
      pol == [ P_CENTRE |-> << 625599, 921309, 6009442, 5867392, 16297975, 4524541, 15266618, 8433496 >>,
               P_TIE |-> << 5242252, 5014262, 1511439, 1283688, 14299608, 3570783, 10639038, 3798600 >>,
               P_FAR |-> << 127835549, 128908080, 128558636, 127347320, 141458705, 124630442, 126752178, 128273128 >> ]
  IN CASE c = "ambulance" -> amb[p][u]
       [] c = "fire" -> fire[p][u]
       [] c = "police" -> pol[p][u]

\* round(distance, 2): hundredths of a kilometre
distance_km(c, p, u) == (calculate_distance(c, p, u) + 5000) \div 10000

AvgSpeedKmh(c) ==
  CASE c = "ambulance" -> 40
    [] c = "fire" -> 50
    [] c = "police" -> 45

\* max(1, int((distance_km / avg_speed_kmh) * 60))
estimate_arrival_time(c, p, u) ==
  LET m == (calculate_distance(c, p, u) * 60) \div (AvgSpeedKmh(c) * 1000000)
  IN IF m < 1 THEN 1 ELSE m

\* ------------------------------------------------------- nearby search
\* list.sort(key=...) is stable: x goes after every element whose key is
\* not larger than its own.
RECURSIVE InsertByKey(_, _, _, _)
InsertByKey(c, p, x, s) ==
  IF s = << >> THEN << x >>
  ELSE IF distance_km(c, p, Head(s)) <= distance_km(c, p, x)
       THEN << Head(s) >> \o InsertByKey(c, p, x, Tail(s))
       ELSE << x >> \o s

RECURSIVE SortByDistanceKm(_, _, _)
SortByDistanceKm(c, p, s) ==
  IF s = << >> THEN << >>
  ELSE InsertByKey(c, p, s[Len(s)], SortByDistanceKm(c, p, SubSeq(s, 1, Len(s) - 1)))

\* rows of "SELECT ... WHERE status = 'available' [AND type = ?]" in rowid order
RECURSIVE AvailableRows(_, _, _, _)
AvailableRows(c, st, f, n) ==
  IF n = 0 THEN << >>
  ELSE LET rest == AvailableRows(c, st, f, n - 1)
       IN IF st[n] = "available" /\ (f = "none" \/ UnitType(c)[n] = f)
          THEN Append(rest, n) ELSE rest

\* variant: the radius test is left out
WithinRadiusNoTest(c, p, rkm, rows) == rows

WithinRadius(c, p, rkm, rows) ==
  SelectSeq(rows, LAMBDA u : calculate_distance(c, p, u) <= rkm * 1000000)

\* variant: the list is returned in row order, without the sort
get_nearby_unsorted(c, st, p, rkm, f) ==
  WithinRadius(c, p, rkm, AvailableRows(c, st, f, Len(st)))

\* get_nearby_ambulances / get_nearby_fire_trucks / get_nearby_patrol_units:
\* the ids of the returned list, in the returned order
get_nearby(c, st, p, rkm, f) ==
  SortByDistanceKm(c, p, WithinRadius(c, p, rkm, AvailableRows(c, st, f, Len(st))))

\* Python slice s[:n]
Take(s, n) ==
  IF n >= 0 THEN SubSeq(s, 1, IF n < Len(s) THEN n ELSE Len(s))
  ELSE SubSeq(s, 1, IF Len(s) + n > 0 THEN Len(s) + n ELSE 0)

NearestRadiusKm(c) ==
  CASE c = "ambulance" -> AmbulanceNearestRadiusKm
    [] c = "fire" -> FireNearestRadiusKm
    [] c = "police" -> PoliceNearestRadiusKm

MultipleRadiusKm(c) ==
  IF c = "fire" THEN FireMultipleRadiusKm ELSE PoliceMultipleRadiusKm


\* ------------------------------------------------------------------ inputs
\* an id that no row has
UnknownId(c) == Len(SeedStatus(c)) + 1

\* unit ids passed to the by-id operations (dispatch, update_status)
TargetIds(c) ==
  (CASE c = "ambulance" -> {2}
     [] c = "fire" -> {7}
     [] c = "police" -> {4}) \cup {UnknownId(c)}

\* new_status values passed to update_status ("offline" is valid nowhere,
\* "maintenance" is not valid for patrol units)
StatusInputs(c) ==
  IF c = "fire" THEN {"available", "offline"}
  ELSE {"available", "dispatched", "maintenance", "offline"}

\* type filter of dispatch_nearest ("none": no filter given); for police the
\* filter is derived from require_rapid_response
FilterInputs(c) ==
  CASE c = "ambulance" -> {"none", "icu"}
    [] c = "fire" -> {"none", "ladder"}
    [] c = "police" -> {"none", "rapid_response"}

UnitsNeededInputs == {0 - 1, 0, 2}
RadiusInputs == {1, AmbulanceDefaultRadiusKm}


\* ------------------------------------------------- conversation session
\* phase_order of EmergencyOrchestrator._advance_phase_if_needed
phase_order ==
  << "initial", "gathering_info", "assessing", "dispatching",
     "providing_guidance", "monitoring", "resolved" >>

PhaseIndex(ph) == CHOOSE i \in DOMAIN phase_order : phase_order[i] = ph

\* ConversationState.__init__ (live: the session is in SessionManager.sessions;
\* info: a field of medical_info / fire_info / police_info other than the
\* case number has been written)
NewSession ==
  [ live |-> TRUE, phase |-> "initial", emergency_type |-> "unknown",
    location |-> [set |-> FALSE, latitude |-> 0, longitude |-> 0],
    dispatches |-> << >>, active_dispatch |-> 0,
    emergency_services_dispatched |-> FALSE, case_number |-> FALSE,
    info |-> FALSE ]

set_emergency_type(s, e) ==
  [ s EXCEPT !.emergency_type = e,
             !.phase = IF @ = "initial" THEN "gathering_info" ELSE @ ]

set_location(s, lat, lon) ==
  [ s EXCEPT !.location = [set |-> TRUE, latitude |-> lat, longitude |-> lon] ]

\* variant: the record is appended without raising the dispatched flag
add_dispatch_without_flag(s, r, service) ==
  [ s EXCEPT !.dispatches = Append(@, [ dispatch_id |-> r.dispatch_id,
                                        service_type |-> service,
                                        status |-> "dispatched" ]),
             !.active_dispatch = Len(s.dispatches) + 1,
             !.phase = IF @ \in {"gathering_info", "assessing"} THEN "dispatching" ELSE @ ]

\* active_dispatch is the index of the record in dispatches (0: None);
\* dispatch_id 0 stands for None
add_dispatch(s, r, service) ==
  [ s EXCEPT !.dispatches = Append(@, [ dispatch_id |-> r.dispatch_id,
                                        service_type |-> service,
                                        status |-> "dispatched" ]),
             !.active_dispatch = Len(s.dispatches) + 1,
             !.emergency_services_dispatched = TRUE,
             !.phase = IF @ \in {"gathering_info", "assessing"} THEN "dispatching" ELSE @ ]

advance_phase(s, ph) == [s EXCEPT !.phase = ph]

\* variant: the phase is set without comparing the indices
advance_phase_always(s, target) == advance_phase(s, target)

\* variant: the session is advanced to the phase after the target
advance_phase_one_too_far(s, target) ==
  IF PhaseIndex(target) > PhaseIndex(s.phase)
  THEN advance_phase(s, phase_order[PhaseIndex(target) + 1])
  ELSE s

advance_phase_if_needed(s, target) ==
  IF PhaseIndex(target) > PhaseIndex(s.phase) THEN advance_phase(s, target) ELSE s

\* variant: the dispatches already recorded are not looked at
should_dispatch_ignoring_history(s) ==
  IF ~s.location.set THEN FALSE
  ELSE IF s.emergency_type = "unknown" THEN FALSE
  ELSE TRUE

\* ConversationState.should_dispatch (location.set: LocationInfo.is_valid)
should_dispatch(s) ==
  IF ~s.location.set THEN FALSE
  ELSE IF s.emergency_type = "unknown" THEN FALSE
  ELSE IF s.emergency_services_dispatched THEN FALSE
  ELSE TRUE

\* variant: a fresh session is made whether or not the id is in the store
create_session_always(s) == NewSession

\* SessionManager.get_or_create_session
get_or_create_session(s) == IF s.live THEN s ELSE NewSession

\* SessionManager.end_session for an id that is in the store
end_session(s) == [advance_phase(s, "resolved") EXCEPT !.live = FALSE]

\* ------------------------------------------------------------------- state
VARIABLES
  cat,          \* the service category this behaviour follows
  status,       \* status column of the unit table, by unit id
  stationAvail, \* fire_stations.available_units, by station id (fire only)
  dispatches,   \* the dispatch table: row id = index, [unit, status]
  thr,          \* per calling thread: position inside the running tool call
  ret,          \* the dict returned by the step just taken (NoRes: no return)
  sess,         \* one conversation session (ConversationState) and its store slot
  turn,         \* process_user_message: position and locals of the running turn
  calc,         \* the last call of a function followed on its own: name, inputs, result
  history,      \* the session's message list and the list of the running turn
  casebook,     \* the cases table, and the case number the session holds
  sessions      \* main.active_sessions, and the session the last /chat used

fleetVars == << status, stationAvail, dispatches >>
appVars == << history, casebook, sessions >>
vars == << cat, appVars, status, stationAvail, dispatches, thr, ret, sess, turn, calc >>

\* no turn is running.  user / assistant / tool: messages the turn has
\* appended to the session so far; executed: iterations whose tool calls
\* were all executed; last_tools / last_content: the latest response of the
\* collaborator; yielded: the text handed to the caller ("none": not yet);
\* system_prompt: the local of that name
NoPrompt ==
  [ phase |-> "none", emergency_type |-> "none", location |-> FALSE,
    dispatched |-> FALSE ]

IdleTurn ==
  [ pc |-> "idle", iterations |-> 0, calls |-> 0, pending |-> 0, executed |-> 0,
    user |-> 0, assistant |-> 0, tool |-> 0,
    last_tools |-> 0, last_content |-> "", full_response |-> "",
    yielded |-> "none", system_prompt |-> NoPrompt ]

NoCalc == [fn |-> "none"]

\* ConversationState.messages is empty and no turn is running (stored: the
\* session's list; messages: the local list of process_user_message; handed:
\* the list last passed to get_response_with_tools; pending: tool calls of
\* the last response not yet executed; next_id: ids the collaborator has used)
NoHistory ==
  [ pc |-> "idle", turns |-> 0, iterations |-> 0, stored |-> << >>,
    messages |-> << >>, handed |-> << >>, pending |-> << >>, next_id |-> 0 ]

\* the cases table is empty (recorded: police_info.case_number, 0 for None;
\* last: the last update_case_status call)
NoCasebook ==
  [ cases |-> {}, recorded |-> 0, last |-> [fn |-> "none"] ]

\* active_sessions is empty
NoSessions ==
  [ active |-> {}, last |-> [fn |-> "none"] ]

IdleLocal ==
  [ pc |-> "idle", op |-> "none", point |-> "none", unit |-> 0, filter |-> "none",
    cands |-> << >>, idx |-> 0, requested |-> 0, done |-> << >>, failed |-> << >>,
    snap |-> "none", newst |-> "none", fallback |-> FALSE ]

NoRes ==
  [ op |-> "none", success |-> FALSE, error |-> "none", cur |-> "none",
    suggestion |-> FALSE, dispatch_id |-> 0, unit |-> 0,
    requested |-> 0, attempted |-> 0, done |-> << >>, failed |-> << >>,
    list |-> << >>, point |-> "none", radius |-> 0, filter |-> "none" ]

\* setup_ambulance_db / setup_fire_db / setup_police_db
Init ==
  /\ cat \in Cats
  /\ status = SeedStatus(cat)
  /\ stationAvail = IF cat = "fire" THEN SeedStationAvailable ELSE << >>
  /\ dispatches = << >>
  /\ thr = [t \in Threads |-> IdleLocal]
  /\ ret = NoRes
  /\ sess = NewSession
  /\ turn = IdleTurn
  /\ calc = NoCalc
  /\ history = NoHistory
  /\ casebook = NoCasebook
  /\ sessions = NoSessions

\* dispatch rows a running call may still insert (bounds the dispatch table)
Pending(l) ==
  CASE l.op \in {"dispatch", "nearest"} -> 1
    [] l.op = "multiple" -> Len(l.cands) - l.idx + 1
    [] OTHER -> 0

Room(k) == Len(dispatches) + Pending(thr[1]) + Pending(thr[2]) + k <= MaxDispatches

\* how far a station's available_units is from the number of its trucks whose
\* status is available
AvailableTrucks(st, s) ==
  Cardinality({u \in DOMAIN st : SeedTruckStation[u] = s /\ st[u] = "available"})

Drift(st, sa, s) == sa[s] - AvailableTrucks(st, s)

\* keeps the station counters in a finite range
DriftInRange(st, sa, s) ==
  /\ Drift(st, sa, s) >= 0 - CounterSlack
  /\ Drift(st, sa, s) <= Drift(SeedTruckStatus, SeedStationAvailable, s) + CounterSlack

\* dispatch rows of unit u that are not completed / resolved
OpenRecordsIn(ds, u) ==
  {d \in DOMAIN ds : ds[d].unit = u /\ ds[d].status = "dispatched"}

OpenRecords(u) == OpenRecordsIn(dispatches, u)


\* ------------------------------------------------------ returning a result
Return(t, r) ==
  /\ thr' = [thr EXCEPT ![t] = IdleLocal]
  /\ ret' = r

FailResult(l, err, cur, sugg) ==
  [ NoRes EXCEPT !.op = l.op, !.error = err, !.cur = cur, !.suggestion = sugg,
                 !.unit = l.unit,
                 !.point = IF l.op = "nearest" THEN l.point ELSE "none",
                 !.filter = IF l.op = "nearest" THEN l.filter ELSE "none" ]

\* dispatch_multiple_units: next iteration of the for loop, or the return
MultipleNext(t, l) ==
  IF l.idx > Len(l.cands)
  THEN Return(t, [ NoRes EXCEPT !.op = "multiple", !.success = Len(l.done) > 0,
                                !.requested = l.requested,
                                !.attempted = Len(l.cands),
                                !.done = l.done, !.failed = l.failed ])
  ELSE /\ thr' = [thr EXCEPT ![t] = [l EXCEPT !.pc = "read", !.unit = l.cands[l.idx]]]
       /\ ret' = NoRes

\* variant: dispatch_multiple_units returns at the first unit that fails
DispatchCheckAbortBatch(t, l) ==
  IF l.unit \notin DOMAIN status
  THEN Return(t, FailResult(l, "not_found", "none", FALSE))
  ELSE IF status[l.unit] # "available"
  THEN IF l.op = "multiple"
       THEN Return(t, [ NoRes EXCEPT !.op = "multiple", !.success = Len(l.done) > 0,
                                     !.requested = l.requested,
                                     !.attempted = Len(l.cands),
                                     !.done = l.done,
                                     !.failed = Append(l.failed, l.unit) ])
       ELSE Return(t, FailResult(l, "currently", status[l.unit], FALSE))
  ELSE /\ thr' = [thr EXCEPT ![t] = [l EXCEPT !.pc = "write"]]
       /\ ret' = NoRes

\* dispatch_ambulance / dispatch_fire_truck / dispatch_patrol_unit, the SELECT
\* of the unit row and the two early returns
DispatchCheck(t, l) ==
  IF l.unit \notin DOMAIN status
  THEN Return(t, FailResult(l, "not_found", "none", FALSE))
  ELSE IF status[l.unit] # "available"
  THEN IF l.op = "multiple"
       THEN MultipleNext(t, [l EXCEPT !.failed = Append(@, l.unit), !.idx = @ + 1])
       ELSE Return(t, FailResult(l, "currently", status[l.unit], FALSE))
  ELSE /\ thr' = [thr EXCEPT ![t] = [l EXCEPT !.pc = "write"]]
       /\ ret' = NoRes

\* ------------------------------------------------------------- operations
\* variant: the unit row is marked dispatched before its status is tested
DispatchByIdUpdateFirst(t, u, p) ==
  /\ ret = NoRes
  /\ thr[t].pc = "idle"
  /\ Room(1)
  /\ LET l == [IdleLocal EXCEPT !.op = "dispatch", !.unit = u, !.point = p]
     IN IF u \in DOMAIN status /\ status[u] # "available"
        THEN /\ status' = [status EXCEPT ![u] = "dispatched"]
             /\ Return(t, FailResult(l, "currently", status[u], FALSE))
             /\ UNCHANGED << stationAvail, dispatches >>
        ELSE /\ DispatchCheck(t, l)
             /\ UNCHANGED fleetVars
  /\ UNCHANGED << cat, appVars, sess, turn, calc >>

\* dispatch by id: the call and its SELECT
DispatchById(t, u, p) ==
  /\ ret = NoRes
  /\ thr[t].pc = "idle"
  /\ Room(1)
  /\ DispatchCheck(t, [IdleLocal EXCEPT !.op = "dispatch", !.unit = u, !.point = p])
  /\ UNCHANGED << cat, appVars, fleetVars, sess, turn, calc >>

\* the SELECT of the unit row inside dispatch_nearest / dispatch_multiple
DispatchRead(t) ==
  /\ ret = NoRes
  /\ thr[t].pc = "read"
  /\ DispatchCheck(t, thr[t])
  /\ UNCHANGED << cat, appVars, fleetVars, sess, turn, calc >>

\* the write transaction of a dispatch: UPDATE unit, (fire) UPDATE station,
\* INSERT dispatch row, commit
DispatchWrite(t) ==
  /\ ret = NoRes
  /\ thr[t].pc = "write"
  /\ LET l == thr[t]
         u == l.unit
         id == Len(dispatches) + 1
     IN /\ status' = [status EXCEPT ![u] = "dispatched"]
        /\ stationAvail' = IF cat = "fire"
                           THEN [stationAvail EXCEPT ![SeedTruckStation[u]] = @ - 1]
                           ELSE stationAvail
        /\ dispatches' = Append(dispatches, [unit |-> u, status |-> "dispatched"])
        /\ cat = "fire" => DriftInRange(status', stationAvail', SeedTruckStation[u])
        /\ IF l.op = "multiple"
           THEN MultipleNext(t, [l EXCEPT !.done = Append(@, id), !.idx = @ + 1])
           ELSE Return(t, [ NoRes EXCEPT !.op = l.op, !.success = TRUE,
                                         !.dispatch_id = id, !.unit = u ])
  /\ UNCHANGED << cat, appVars, sess, turn, calc >>

\* dispatch_nearest_*: the nearby search and the choice of the first entry
DispatchNearest(t, p, f) ==
  /\ ret = NoRes
  /\ thr[t].pc = "idle"
  /\ f \in FilterInputs(cat)
  /\ Room(1)
  /\ LET l == [IdleLocal EXCEPT !.op = "nearest", !.point = p, !.filter = f]
         found == get_nearby(cat, status, p, NearestRadiusKm(cat), f)
     IN IF found = << >>
        THEN IF cat = "police" /\ f = "rapid_response"
             THEN /\ thr' = [thr EXCEPT ![t] = [l EXCEPT !.pc = "find2"]]
                  /\ ret' = NoRes
             ELSE Return(t, FailResult(l, "no_candidate", "none", TRUE))
        ELSE /\ thr' = [thr EXCEPT ![t] = [l EXCEPT !.pc = "read", !.unit = found[1]]]
             /\ ret' = NoRes
  /\ UNCHANGED << cat, appVars, fleetVars, sess, turn, calc >>

\* dispatch_nearest_patrol_unit: second search, any unit type
DispatchNearestFallback(t) ==
  /\ ret = NoRes
  /\ thr[t].pc = "find2"
  /\ LET l == [thr[t] EXCEPT !.fallback = TRUE]
         found == get_nearby(cat, status, l.point, NearestRadiusKm(cat), "none")
     IN IF found = << >>
        THEN Return(t, FailResult(l, "no_candidate", "none", TRUE))
        ELSE /\ thr' = [thr EXCEPT ![t] = [l EXCEPT !.pc = "read", !.unit = found[1]]]
             /\ ret' = NoRes
  /\ UNCHANGED << cat, appVars, fleetVars, sess, turn, calc >>

\* dispatch_multiple_units (fire, police): the nearby search and the slice
DispatchMultiple(t, p, n) ==
  /\ ret = NoRes
  /\ thr[t].pc = "idle"
  /\ cat \in {"fire", "police"}
  /\ LET cands == Take(get_nearby(cat, status, p, MultipleRadiusKm(cat), "none"), n)
     IN /\ Room(Len(cands))
        /\ MultipleNext(t, [IdleLocal EXCEPT !.op = "multiple", !.point = p,
                                             !.requested = n, !.cands = cands,
                                             !.idx = 1])
  /\ UNCHANGED << cat, appVars, fleetVars, sess, turn, calc >>

\* complete_dispatch / complete_fire_dispatch / complete_police_dispatch.
\* The SELECT reads only the row's existence and unit id, which never
\* change, so the call is one step.
Complete(t, d) ==
  /\ ret = NoRes
  /\ thr[t].pc = "idle"
  /\ LET l == [IdleLocal EXCEPT !.op = "complete"]
     IN IF d \notin DOMAIN dispatches
        THEN /\ Return(t, [FailResult(l, "not_found", "none", FALSE) EXCEPT !.dispatch_id = d])
             /\ UNCHANGED fleetVars
        ELSE LET u == dispatches[d].unit
             IN /\ dispatches' = [dispatches EXCEPT ![d].status = ResolvedStatus(cat)]
                /\ status' = [status EXCEPT ![u] = "available"]
                /\ stationAvail' = IF cat = "fire"
                                   THEN [stationAvail EXCEPT ![SeedTruckStation[u]] = @ + 1]
                                   ELSE stationAvail
                /\ cat = "fire" => DriftInRange(status', stationAvail', SeedTruckStation[u])
                /\ Return(t, [ NoRes EXCEPT !.op = "complete", !.success = TRUE,
                                            !.dispatch_id = d, !.unit = u ])
  /\ UNCHANGED << cat, appVars, sess, turn, calc >>

\* update_ambulance_status / update_patrol_unit_status (one UPDATE), and
\* update_fire_truck_status up to its SELECT of the old status
UpdateStatus(t, u, s) ==
  /\ ret = NoRes
  /\ thr[t].pc = "idle"
  /\ LET l == [IdleLocal EXCEPT !.op = "update", !.unit = u, !.newst = s]
     IN IF s \notin ValidStatuses(cat)
        THEN /\ Return(t, FailResult(l, "invalid_status", "none", FALSE))
             /\ UNCHANGED fleetVars
        ELSE IF u \notin DOMAIN status
        THEN /\ Return(t, FailResult(l, "not_found", "none", FALSE))
             /\ UNCHANGED fleetVars
        ELSE IF cat = "fire"
        THEN /\ thr' = [thr EXCEPT ![t] = [l EXCEPT !.pc = "uwrite", !.snap = status[u]]]
             /\ ret' = NoRes
             /\ UNCHANGED fleetVars
        ELSE /\ status' = [status EXCEPT ![u] = s]
             /\ Return(t, [NoRes EXCEPT !.op = "update", !.success = TRUE, !.unit = u])
             /\ UNCHANGED << stationAvail, dispatches >>
  /\ UNCHANGED << cat, appVars, sess, turn, calc >>

\* update_fire_truck_status: the write transaction
UpdateFireWrite(t) ==
  /\ ret = NoRes
  /\ thr[t].pc = "uwrite"
  /\ LET l == thr[t]
         u == l.unit
         st == SeedTruckStation[u]
         delta == IF l.snap # "available" /\ l.newst = "available" THEN 1
                  ELSE IF l.snap = "available" /\ l.newst # "available" THEN 0 - 1
                  ELSE 0
     IN /\ status' = [status EXCEPT ![u] = l.newst]
        /\ stationAvail' = [stationAvail EXCEPT ![st] = @ + delta]
        /\ DriftInRange(status', stationAvail', st)
        /\ Return(t, [ NoRes EXCEPT !.op = "update", !.success = TRUE, !.unit = u,
                                    !.cur = l.snap ])
  /\ UNCHANGED << cat, appVars, dispatches, sess, turn, calc >>

\* get_nearby_ambulances / get_nearby_fire_trucks / get_nearby_patrol_units
GetNearby(t, p, r, f) ==
  /\ ret = NoRes
  /\ thr[t].pc = "idle"
  /\ f \in FilterInputs(cat)
  /\ Return(t, [ NoRes EXCEPT !.op = "nearby", !.success = TRUE,
                              !.point = p, !.radius = r, !.filter = f,
                              !.list = get_nearby(cat, status, p, r, f) ])
  /\ UNCHANGED << cat, appVars, fleetVars, sess, turn, calc >>

\* execute_tool hands the returned dict to its caller.  No step reads ret, so
\* holding the other steps until then drops no interleaving of the database
\* steps.
ReturnToCaller ==
  /\ ret # NoRes
  /\ ret' = NoRes
  /\ UNCHANGED << cat, appVars, fleetVars, thr, sess, turn, calc >>

Next ==
  \/ \E t \in Threads, u \in TargetIds(cat), p \in Points : DispatchById(t, u, p)
  \/ \E t \in Threads : DispatchRead(t)
  \/ \E t \in Threads : DispatchWrite(t)
  \/ \E t \in Threads, p \in Points, f \in FilterInputs(cat) : DispatchNearest(t, p, f)
  \/ \E t \in Threads : DispatchNearestFallback(t)
  \/ \E t \in Threads, p \in Points, n \in UnitsNeededInputs : DispatchMultiple(t, p, n)
  \/ \E t \in Threads, d \in 1..(MaxDispatches + 1) : Complete(t, d)
  \/ \E t \in Threads, u \in TargetIds(cat), s \in StatusInputs(cat) : UpdateStatus(t, u, s)
  \/ \E t \in Threads : UpdateFireWrite(t)
  \/ \E t \in Threads, p \in Points, r \in RadiusInputs, f \in FilterInputs(cat) : GetNearby(t, p, r, f)
  \/ ReturnToCaller

Spec == Init /\ [][Next]_vars

\* behaviours in which the two sessions issue dispatch calls only
DispatchNext ==
  \/ \E t \in Threads, u \in TargetIds(cat), p \in Points : DispatchById(t, u, p)
  \/ \E t \in Threads : DispatchRead(t)
  \/ \E t \in Threads : DispatchWrite(t)
  \/ \E t \in Threads, p \in Points, f \in FilterInputs(cat) : DispatchNearest(t, p, f)
  \/ \E t \in Threads : DispatchNearestFallback(t)
  \/ \E t \in Threads, p \in Points, n \in UnitsNeededInputs : DispatchMultiple(t, p, n)
  \/ ReturnToCaller

SpecDispatch == Init /\ [][DispatchNext]_vars


\* ------------------------------------------------------------- properties
DispatchOps == {"dispatch", "nearest"}

\* the thread that takes the step
Stepped(t) == thr'[t] # thr[t]

\* unit v is a candidate of a nearby search (st: the status column read)
Qualifies(c, st, p, rkm, f, v) ==
  /\ st[v] = "available"
  /\ f = "none" \/ UnitType(c)[v] = f
  /\ calculate_distance(c, p, v) <= rkm * 1000000

SeqRange(s) == {s[i] : i \in DOMAIN s}

\* C1: when two sessions dispatch the same available unit concurrently,
\* exactly one of the calls succeeds: a dispatch returns success only if the
\* unit is still available when its write transaction runs (otherwise it
\* fails with "currently dispatched"), and afterwards the unit has exactly
\* one open dispatch record.
C1_OnlyOneConcurrentDispatchSucceeds ==
  [][ (ret'.op \in DispatchOps /\ ret'.success)
        => /\ status[ret'.unit] = "available"
           /\ Cardinality(OpenRecordsIn(dispatches', ret'.unit)) = 1 ]_vars

\* C2: a dispatch by id changes an available unit to dispatched and creates
\* exactly one open record for it; no further dispatch of the unit succeeds
\* while that record is open.
C2_NoSecondDispatchBeforeCompletion ==
  [][ (ret'.op = "dispatch" /\ ret'.success)
        => /\ OpenRecords(ret'.unit) = {}
           /\ status'[ret'.unit] = "dispatched"
           /\ dispatches' = Append(dispatches, [unit |-> ret'.unit, status |-> "dispatched"])
           /\ ret'.dispatch_id = Len(dispatches') ]_vars

\* C3: in every reachable state a unit is dispatched if and only if exactly
\* one open dispatch record references it, and no unit has more than one
\* open record.
C3_DispatchedIffOneOpenRecord ==
  \A u \in DOMAIN status :
    /\ Cardinality(OpenRecords(u)) <= 1
    /\ status[u] = "dispatched" <=> Cardinality(OpenRecords(u)) = 1

\* C4: complete succeeds only on an open dispatch record (it then resolves the
\* record and frees the unit); completing a record that is already resolved
\* fails.
C4_SecondCompleteFails ==
  [][ (ret'.op = "complete" /\ ret'.success)
        => /\ ret'.dispatch_id \in DOMAIN dispatches
           /\ dispatches[ret'.dispatch_id].status = "dispatched"
           /\ dispatches'[ret'.dispatch_id].status = ResolvedStatus(cat)
           /\ status'[ret'.unit] = "available" ]_vars

\* C5: every fire station keeps 0 <= available_units <= total_units.
C5_StationCounterInRange ==
  cat = "fire" =>
    \A s \in DOMAIN stationAvail :
      0 <= stationAvail[s] /\ stationAvail[s] <= SeedStationTotal[s]

\* C6: in every reachable state, the seeded one included, each fire station's
\* available_units equals the number of its trucks whose status is available.
C6_StationCounterMirrorsTrucks ==
  cat = "fire" =>
    \A s \in DOMAIN stationAvail : stationAvail[s] = AvailableTrucks(status, s)

\* C7: the phase index of a session never decreases, whatever tool results are
\* folded into it (classification and dispatch-record append included), and
\* when the session is ended.  The only step left out is the one that puts a
\* fresh session object in place of an ended one.
C7_PhaseNeverDecreases ==
  [][ (sess.live \/ ~sess'.live)
        => PhaseIndex(sess'.phase) >= PhaseIndex(sess.phase) ]_vars

\* a second dispatch was appended to a session that had already moved on to
\* providing_guidance
C7_Witness ==
  /\ sess.live
  /\ sess.phase = "providing_guidance"
  /\ Len(sess.dispatches) = 2
  /\ sess.emergency_type # "unknown"

\* C8: a dispatch or dispatch_nearest call that fails (unknown id, unit not
\* available, no candidate) returns success = false, with a suggestion in the
\* no-candidate case, and no step of the call changes unit statuses, station
\* counters or dispatch records: such a call changes them only in the step
\* that returns success.
C8_FailedDispatchChangesNothing ==
  [][ /\ (ret'.op \in DispatchOps /\ ~ret'.success)
          => /\ UNCHANGED fleetVars
             /\ ret'.error \in {"not_found", "currently", "no_candidate"}
             /\ ret'.suggestion <=> ret'.error = "no_candidate"
             /\ ret'.dispatch_id = 0
      /\ \A t \in Threads :
           ( /\ Stepped(t)
             /\ thr[t].op \in DispatchOps \/ thr'[t].op \in DispatchOps
                  \/ ret'.op \in DispatchOps
             /\ fleetVars' # fleetVars )
             => ret'.op \in DispatchOps /\ ret'.success ]_vars

\* a dispatch_nearest lost the unit it had chosen to another call and failed;
\* the other call's record is there
C8_Witness ==
  /\ ret.op = "nearest"
  /\ ~ret.success
  /\ ret.error = "currently"
  /\ OpenRecords(ret.unit) # {}

\* what C9 and its amendment share: the returned list holds, once each,
\* exactly the available units that match the filter and lie within the radius
NearbyExact ==
  ret.op = "nearby" =>
    /\ SeqRange(ret.list) = { v \in UnitIds(cat) :
          Qualifies(cat, status, ret.point, ret.radius, ret.filter, v) }
    /\ Len(ret.list) = Cardinality(SeqRange(ret.list))

C11_MultipleAttemptsEveryCandidate ==
  [][ ret'.op = "multiple"
        => /\ ret'.success <=> Len(ret'.done) > 0
           /\ Len(ret'.done) + Len(ret'.failed) = ret'.attempted
           /\ \A i \in DOMAIN ret'.done :
                /\ ret'.done[i] \in DOMAIN dispatches'
                /\ dispatches'[ret'.done[i]].unit \notin SeqRange(ret'.failed)
           /\ \A t \in Threads :
                Stepped(t)
                  => /\ thr[t].op = "multiple"
                     /\ ret'.attempted = Len(thr[t].cands)
                     /\ SeqRange(ret'.failed)
                          \cup {dispatches'[ret'.done[i]].unit : i \in DOMAIN ret'.done}
                          = SeqRange(thr[t].cands)
           /\ (\A t \in Threads : ~Stepped(t)) => ret'.attempted = 0 ]_vars

\* a dispatch_multiple lost its first candidate to another call, recorded it
\* in failed and went on to dispatch the second candidate
C11_Witness ==
  /\ ret.op = "multiple"
  /\ ret.success
  /\ ret.attempted = 2
  /\ Len(ret.failed) = 1
  /\ Len(ret.done) = 1
  /\ status[ret.failed[1]] # "available"
  /\ status[dispatches[ret.done[1]].unit] = "dispatched"


\* ------------------------------------------ folding tool results (session)
\* keys of TOOL_REGISTRY, and a name that is not registered
ToolNames ==
  { "classify_emergency", "set_user_location", "lookup_location_by_area",
    "update_medical_info", "update_fire_info", "update_police_info",
    "get_nearby_ambulances", "dispatch_nearest_ambulance", "assess_ambulance_need",
    "get_available_ambulances", "update_ambulance_status",
    "get_nearby_fire_stations", "get_nearby_fire_trucks",
    "dispatch_nearest_fire_truck", "dispatch_multiple_fire_units",
    "assess_fire_severity", "get_available_fire_trucks", "update_fire_truck_status",
    "get_nearby_patrol_units", "dispatch_nearest_patrol_unit",
    "dispatch_multiple_police_units", "assess_threat_level", "create_case",
    "get_safety_instructions", "get_available_patrol_units", "update_case_status" }

AssessTools == {"assess_ambulance_need", "assess_fire_severity", "assess_threat_level"}

UpdateTools == {"update_medical_info", "update_fire_info", "update_police_info"}

DispatchService(tool) ==
  CASE tool \in {"dispatch_nearest_ambulance", "dispatch_ambulance"} -> "ambulance"
    [] tool \in {"dispatch_nearest_fire_truck", "dispatch_fire_truck",
                 "dispatch_multiple_fire_units"} -> "fire"
    [] tool \in {"dispatch_nearest_patrol_unit", "dispatch_patrol_unit",
                 "dispatch_multiple_police_units"} -> "police"

DispatchTools ==
  { "dispatch_nearest_ambulance", "dispatch_nearest_fire_truck",
    "dispatch_multiple_fire_units", "dispatch_nearest_patrol_unit",
    "dispatch_multiple_police_units" }

\* the fields of a tool result that _process_tool_result reads
\* (latitude / longitude 0 and dispatch_id 0: absent or falsy; update: the
\* *_info_update dict has a key)
ToolResults(tool) ==
  IF tool \notin ToolNames
  THEN { [success |-> FALSE, emergency_type |-> "none", latitude |-> 0,
          longitude |-> 0, dispatch_id |-> 0, case_number |-> FALSE,
          update |-> FALSE] }
  ELSE { [success |-> ok, emergency_type |-> e, latitude |-> la, longitude |-> lo,
          dispatch_id |-> d, case_number |-> c, update |-> u] :
           ok \in BOOLEAN,
           u \in (IF tool \in UpdateTools THEN BOOLEAN ELSE {FALSE}),
           e \in (IF tool = "classify_emergency" THEN {"medical", "fire", "police"}
                  ELSE {"none"}),
           la \in (IF tool \in {"set_user_location", "lookup_location_by_area"}
                   THEN {0, 12} ELSE {0}),
           lo \in (IF tool \in {"set_user_location", "lookup_location_by_area"}
                   THEN {0, 77} ELSE {0}),
           d \in (IF tool \in {"dispatch_nearest_ambulance", "dispatch_nearest_fire_truck",
                               "dispatch_nearest_patrol_unit"} THEN {1}
                  ELSE {0}),
           c \in (IF tool \in {"create_case", "dispatch_nearest_patrol_unit"}
                  THEN {TRUE} ELSE {FALSE}) }

\* variant: a dispatch result is recorded only while should_dispatch() holds
handle_dispatch_result_gated(s, tool, r) ==
  IF should_dispatch(s)
  THEN LET s1 == add_dispatch(s, r, DispatchService(tool))
           s2 == IF DispatchService(tool) = "police" /\ r.case_number
                 THEN [s1 EXCEPT !.case_number = TRUE] ELSE s1
       IN advance_phase_if_needed(s2, "providing_guidance")
  ELSE s

\* variant: the phase is left where add_dispatch put it
handle_dispatch_result_no_advance(s, tool, r) ==
  LET s1 == add_dispatch(s, r, DispatchService(tool))
  IN IF DispatchService(tool) = "police" /\ r.case_number
     THEN [s1 EXCEPT !.case_number = TRUE] ELSE s1

\* _process_tool_result, the branch of the dispatch tools
handle_dispatch_result(s, tool, r) ==
  LET s1 == add_dispatch(s, r, DispatchService(tool))
      s2 == IF DispatchService(tool) = "police" /\ r.case_number
            THEN [s1 EXCEPT !.case_number = TRUE] ELSE s1
  IN advance_phase_if_needed(s2, "providing_guidance")

\* _process_tool_result after the test of the success field
fold_successful_result(s, tool, r) ==
  IF tool = "classify_emergency"
  THEN IF r.emergency_type \in {"medical", "fire", "police"}
       THEN set_emergency_type(s, r.emergency_type) ELSE s
  ELSE IF tool \in {"set_user_location", "lookup_location_by_area"}
  THEN IF r.latitude # 0 /\ r.longitude # 0
       THEN set_location(s, r.latitude, r.longitude) ELSE s
  ELSE IF tool \in UpdateTools
  THEN IF r.update THEN [s EXCEPT !.info = TRUE] ELSE s
  ELSE IF tool \in AssessTools
  THEN advance_phase_if_needed([s EXCEPT !.info = TRUE], "assessing")
  ELSE IF tool \in DispatchTools
  THEN handle_dispatch_result(s, tool, r)
  ELSE IF tool = "create_case"
  THEN [s EXCEPT !.case_number = r.case_number]
  ELSE s

\* variant: the success field of the result is not looked at
process_tool_result_unchecked(s, tool, r) == fold_successful_result(s, tool, r)

\* EmergencyOrchestrator._process_tool_result
process_tool_result(s, tool, r) ==
  IF ~r.success THEN s ELSE fold_successful_result(s, tool, r)

sessFrame == << cat, appVars, status, stationAvail, dispatches, thr, ret, turn, calc >>

\* one pass of the tool loop body for one tool call: the result is folded
\* into the session (a request in flight keeps folding results into its
\* session object after the session was ended)
ProcessToolResult(tool, r) ==
  /\ Len(sess.dispatches) < MaxSessionDispatches \/ tool \notin DispatchTools \/ ~r.success
  /\ sess' = process_tool_result(sess, tool, r)
  /\ UNCHANGED sessFrame

\* EmergencyOrchestrator.set_user_location (location sent with the request)
SetUserLocation(lat, lon) ==
  /\ sess.live
  /\ sess' = set_location(sess, lat, lon)
  /\ UNCHANGED sessFrame

\* SessionManager.end_session
EndSession ==
  /\ sess.live
  /\ sess' = end_session(sess)
  /\ UNCHANGED sessFrame

\* SessionManager.get_or_create_session: the stored session, or a fresh one
\* for an id that is not in the store
CreateSession ==
  /\ sess' = get_or_create_session(sess)
  /\ UNCHANGED sessFrame

SessionNext ==
  \/ \E tool \in ToolNames \cup {"unknown_tool"} :
       \E r \in ToolResults(tool) : ProcessToolResult(tool, r)
  \/ \E lat \in {0, 12}, lon \in {0, 77} : SetUserLocation(lat, lon)
  \/ EndSession
  \/ CreateSession

SpecSession == Init /\ [][SessionNext]_vars


\* ------------------------------------------------------- the tool loop
\* tool names the collaborator asks for in the loop
LoopTools ==
  { "classify_emergency", "dispatch_nearest_ambulance", "unknown_tool" }

\* text content of a response (None is read as "")
Contents == {"", "text"}

loopFrame == << cat, appVars, status, stationAvail, dispatches, thr, ret, calc >>

\* variant: the loop condition lets one more iteration through
LoopContinuesOffByOne(tn) == tn.iterations <= MAX_TOOL_ITERATIONS

\* while iterations < self.MAX_TOOL_ITERATIONS
LoopContinues(tn) == tn.iterations < MAX_TOOL_ITERATIONS

\* build_system_prompt: the parts of the prompt that depend on the session
\* (context summary, phase prompt, type prompt, missing-location reminder,
\* dispatch status line)
build_system_prompt(s) ==
  [ phase |-> s.phase, emergency_type |-> s.emergency_type,
    location |-> s.location.set,
    dispatched |-> (s.emergency_services_dispatched /\ s.active_dispatch # 0) ]

\* process_user_message up to the loop: the user message is appended and the
\* system prompt is built
BeginTurn ==
  /\ turn.pc \in {"idle", "done"}
  /\ turn' = [IdleTurn EXCEPT !.pc = "loop", !.user = 1,
                              !.system_prompt = build_system_prompt(sess)]
  /\ UNCHANGED << loopFrame, sess >>

\* one get_response_with_tools call and the has_tool_calls test: n tool calls
\* and a text content come back
CallCollaborator(n, content) ==
  /\ turn.pc = "loop"
  /\ LoopContinues(turn)
  /\ turn' = [turn EXCEPT !.iterations = @ + 1, !.calls = @ + 1,
                          !.last_tools = n, !.last_content = content,
                          !.pending = n,
                          !.pc = IF n > 0 THEN "tools" ELSE "finish",
                          !.full_response = IF n > 0 THEN @ ELSE content]
  /\ UNCHANGED << loopFrame, sess >>

\* the body of the for loop for one tool call: execute_tool,
\* _process_tool_result, add_tool_result; after the last call, continue
ExecuteTool(tool, r) ==
  /\ turn.pc = "tools"
  /\ Len(sess.dispatches) < MaxSessionDispatches \/ tool \notin DispatchTools \/ ~r.success
  /\ sess' = process_tool_result(sess, tool, r)
  /\ turn' = [turn EXCEPT !.tool = @ + 1, !.pending = @ - 1,
                          !.executed = IF turn.pending = 1 THEN @ + 1 ELSE @,
                          !.pc = IF turn.pending = 1 THEN "loop" ELSE "tools"]
  /\ UNCHANGED loopFrame

\* after the loop: the assistant message is appended and the text is yielded
FinishTurn ==
  /\ turn.pc = "finish" \/ (turn.pc = "loop" /\ ~LoopContinues(turn))
  /\ turn' = [turn EXCEPT !.assistant = @ + 1, !.yielded = turn.full_response,
                          !.pc = "done"]
  /\ UNCHANGED << loopFrame, sess >>

LoopStep ==
  \/ \E n \in 0..MaxToolCalls, content \in Contents : CallCollaborator(n, content)
  \/ \E tool \in LoopTools : \E r \in ToolResults(tool) : ExecuteTool(tool, r)
  \/ FinishTurn

LoopNext ==
  \/ BeginTurn
  \/ \E n \in 0..MaxToolCalls, content \in Contents : CallCollaborator(n, content)
  \/ \E tool \in LoopTools : \E r \in ToolResults(tool) : ExecuteTool(tool, r)
  \/ FinishTurn

\* the collaborator answers every call and every tool returns
SpecLoop == Init /\ [][LoopNext]_vars /\ WF_vars(LoopStep)


\* ------------------------------------- a session that drives the fleet
\* the registered dispatch tool behind a dispatch call of category c
AgentTool(c, op) ==
  CASE op = "nearest" /\ c = "ambulance" -> "dispatch_nearest_ambulance"
    [] op = "nearest" /\ c = "fire" -> "dispatch_nearest_fire_truck"
    [] op = "nearest" /\ c = "police" -> "dispatch_nearest_patrol_unit"
    [] op = "multiple" /\ c = "fire" -> "dispatch_multiple_fire_units"
    [] op = "multiple" /\ c = "police" -> "dispatch_multiple_police_units"

\* the fields _process_tool_result reads in the dict a dispatch tool returns:
\* dispatch_multiple_units has no dispatch_id key, dispatch_patrol_unit
\* returns a case_number
AsToolResult(c, rt) ==
  [ success |-> rt.success, emergency_type |-> "none", latitude |-> 0,
    longitude |-> 0, update |-> FALSE,
    dispatch_id |-> IF rt.op = "nearest" THEN rt.dispatch_id ELSE 0,
    case_number |-> (c = "police" /\ rt.op = "nearest" /\ rt.success) ]

\* tools of the session that do not touch the fleet
AgentStateTools == {"classify_emergency", "set_user_location"}

\* a state tool called by the session between its dispatch calls
AgentStateTool(tool, r) ==
  /\ thr[1].pc = "idle"
  /\ ret = NoRes
  /\ ProcessToolResult(tool, r)

\* the dict a call returned is handed on: the result of the session's
\* dispatch tool is folded into the session by _process_tool_result, the
\* result of an operator's complete call goes to the operator
FoldToolResult ==
  /\ ret # NoRes
  /\ sess' = IF ret.op \in {"nearest", "multiple"}
             THEN process_tool_result(sess, AgentTool(cat, ret.op), AsToolResult(cat, ret))
             ELSE sess
  /\ ret' = NoRes
  /\ UNCHANGED << cat, appVars, fleetVars, thr, turn, calc >>

\* thread 1 runs the dispatch tools the session's collaborator asks for,
\* thread 2 is an operator completing dispatches
AgentNext ==
  \/ \E p \in Points, f \in FilterInputs(cat) : DispatchNearest(1, p, f)
  \/ DispatchNearestFallback(1)
  \/ \E p \in Points, n \in UnitsNeededInputs : DispatchMultiple(1, p, n)
  \/ DispatchRead(1)
  \/ DispatchWrite(1)
  \/ \E d \in 1..(MaxDispatches + 1) : Complete(2, d)
  \/ \E tool \in AgentStateTools : \E r \in ToolResults(tool) : AgentStateTool(tool, r)
  \/ FoldToolResult

SpecAgent == Init /\ [][AgentNext]_vars


\* -------------------------------------------- one tool call, from payload
\* registered tools whose parameters all have defaults
ToolsWithoutRequiredArgs ==
  { "update_medical_info", "update_fire_info", "update_police_info",
    "get_available_ambulances", "get_available_fire_trucks",
    "get_available_patrol_units" }

\* json.loads of the argument payload; JSONDecodeError gives {}
parse_arguments(wellformed) == IF wellformed THEN "given" ELSE "empty"

FailedResult ==
  [ success |-> FALSE, emergency_type |-> "none", latitude |-> 0, longitude |-> 0,
    dispatch_id |-> 0, case_number |-> FALSE, update |-> FALSE ]

\* execute_tool(tool, {}): unknown name, TypeError for a missing required
\* argument, or the tool run with its defaults
execute_tool_empty(tool) ==
  IF tool \notin ToolNames THEN FailedResult
  ELSE IF tool \in ToolsWithoutRequiredArgs
  THEN [FailedResult EXCEPT !.success = TRUE]
  ELSE FailedResult

\* the body of the for loop for one tool call, from the payload on: json.loads,
\* execute_tool, _process_tool_result (r: what the tool returns for the
\* arguments of a well-formed payload)
HandleToolCall(tool, wellformed, r) ==
  /\ LET arguments == parse_arguments(wellformed)
         result == IF arguments = "empty" THEN execute_tool_empty(tool) ELSE r
     IN /\ Len(sess.dispatches) < MaxSessionDispatches
             \/ tool \notin DispatchTools \/ ~result.success
        /\ sess' = process_tool_result(sess, tool, result)
        /\ calc' = [ fn |-> "tool_call", tool |-> tool, wellformed |-> wellformed,
                     arguments |-> arguments, success |-> result.success ]
  /\ UNCHANGED << cat, appVars, fleetVars, thr, ret, turn >>

ParseNext ==
  \/ \E tool \in ToolNames \cup {"unknown_tool"} :
       HandleToolCall(tool, FALSE, FailedResult)
  \/ \E tool \in LoopTools : \E r \in ToolResults(tool) :
       HandleToolCall(tool, TRUE, r)

SpecParse == Init /\ [][ParseNext]_vars


\* ------------------------------------------------- setting the location
\* coordinates in whole degrees, in and out of range
LatitudeInputs == {0 - 91, 0, 12, 95}
LongitudeInputs == {0 - 181, 0, 77, 181}

\* state_tools.set_user_location
set_user_location(lat, lon) ==
  IF ~(0 - 90 <= lat /\ lat <= 90) THEN FailedResult
  ELSE IF ~(0 - 180 <= lon /\ lon <= 180) THEN FailedResult
  ELSE [FailedResult EXCEPT !.success = TRUE, !.latitude = lat, !.longitude = lon]

\* the set_user_location tool called by the collaborator, and its fold
LocationToolCall(lat, lon) ==
  /\ LET result == set_user_location(lat, lon)
     IN /\ sess' = process_tool_result(sess, "set_user_location", result)
        /\ calc' = [ fn |-> "set_user_location", latitude |-> lat,
                     longitude |-> lon, success |-> result.success ]
  /\ UNCHANGED << cat, appVars, fleetVars, thr, ret, turn >>

\* the tool, and the location sent with a /chat or /location request
LocationNext ==
  \/ \E lat \in LatitudeInputs, lon \in LongitudeInputs : LocationToolCall(lat, lon)
  \/ \E lat \in LatitudeInputs, lon \in LongitudeInputs : SetUserLocation(lat, lon)

SpecLocation == Init /\ [][LocationNext]_vars


\* ------------------------------------------- status updates on their own
\* trucks whose status is updated: truck 4 (available) and truck 7
\* (maintenance), and an id that does not exist
UpdateTargets(c) == (IF c = "fire" THEN {4, 7} ELSE TargetIds(c)) \cup {UnknownId(c)}

\* every valid status, and one that is not
UpdateStatusInputs == {"available", "busy", "dispatched", "maintenance", "offline"}

\* two callers updating unit statuses
UpdateNext ==
  \/ \E t \in Threads, u \in UpdateTargets(cat), s \in UpdateStatusInputs :
       UpdateStatus(t, u, s)
  \/ \E t \in Threads : UpdateFireWrite(t)
  \/ ReturnToCaller

SpecUpdate == Init /\ [][UpdateNext]_vars


\* ------------------------------------ the fleet through TOOL_REGISTRY
\* categories with a status-update function among the registered tools
\* (update_ambulance_status, update_fire_truck_status; update_patrol_unit_status
\* and the three complete functions are not keys of TOOL_REGISTRY)
RegistryUpdateCats == {"ambulance", "fire"}

RegistryUnitIds == UnitIds("ambulance") \cup UnitIds("fire") \cup UnitIds("police")

\* update_ambulance_status / update_fire_truck_status called through execute_tool
RegistryUpdateStatus(u, s) ==
  /\ cat \in RegistryUpdateCats
  /\ u \in DOMAIN status
  /\ UpdateStatus(1, u, s)

\* the registered update tool asked to make a dispatched unit available
RegistryRestore(u) ==
  /\ u \in DOMAIN status
  /\ status[u] = "dispatched"
  /\ RegistryUpdateStatus(u, "available")

\* one caller using the registered fleet tools; its status updates release
\* units ("offline" is not a valid status)
RegistryNext ==
  \/ \E p \in Points, f \in FilterInputs(cat) : DispatchNearest(1, p, f)
  \/ DispatchNearestFallback(1)
  \/ \E p \in Points, n \in UnitsNeededInputs : DispatchMultiple(1, p, n)
  \/ DispatchRead(1)
  \/ DispatchWrite(1)
  \/ \E u \in RegistryUnitIds, s \in {"available", "offline"} : RegistryUpdateStatus(u, s)
  \/ UpdateFireWrite(1)
  \/ ReturnToCaller

\* every call that was started returns, and the caller keeps asking the
\* registered update tool to release each dispatched unit
SpecRegistry ==
  /\ Init
  /\ [][RegistryNext]_vars
  /\ WF_vars(DispatchNearestFallback(1))
  /\ WF_vars(DispatchRead(1))
  /\ WF_vars(DispatchWrite(1))
  /\ WF_vars(UpdateFireWrite(1))
  /\ WF_vars(ReturnToCaller)
  /\ \A u \in RegistryUnitIds : SF_vars(RegistryRestore(u))

\* ------------------------------------------- the message lists of a session
MaxHistoryTurns == 2
MaxHistoryToolCalls == 3

\* messages by the keys the collaborator's API reads (tool_calls {}: no such
\* key; tool_call_id 0: no such key)
UserMessage == [role |-> "user", tool_calls |-> {}, tool_call_id |-> 0]
AssistantMessage(ids) == [role |-> "assistant", tool_calls |-> ids, tool_call_id |-> 0]
ToolMessage(id) == [role |-> "tool", tool_calls |-> {}, tool_call_id |-> id]

\* ConversationState.get_messages_for_llm: a new list, the timestamp dropped
get_messages_for_llm(stored) ==
  [ i \in DOMAIN stored |->
      IF stored[i].role = "tool" THEN ToolMessage(stored[i].tool_call_id)
      ELSE [ role |-> stored[i].role, tool_calls |-> stored[i].tool_calls,
             tool_call_id |-> 0 ] ]

historyFrame == << cat, status, stationAvail, dispatches, thr, ret, sess, turn, calc,
                   casebook, sessions >>

\* process_user_message up to the loop: add_message("user", ...) and
\* messages = get_messages_for_llm()
HistoryBeginTurn ==
  /\ history.pc \in {"idle", "done"}
  /\ history.turns < MaxHistoryTurns
  /\ LET stored == Append(history.stored, UserMessage)
     IN history' = [history EXCEPT !.pc = "loop", !.turns = @ + 1, !.iterations = 0,
                                   !.stored = stored,
                                   !.messages = get_messages_for_llm(stored),
                                   !.pending = << >>]
  /\ UNCHANGED historyFrame

\* get_response_with_tools(messages, ...) answers with n tool calls; with
\* n > 0 the assistant message carrying them is appended to messages
HistoryCall(n) ==
  /\ history.pc = "loop"
  /\ history.iterations < MAX_TOOL_ITERATIONS
  /\ history.next_id + n <= MaxHistoryToolCalls
  /\ LET ids == [k \in 1..n |-> history.next_id + k]
     IN history' = [history EXCEPT
                      !.iterations = @ + 1,
                      !.handed = history.messages,
                      !.messages = IF n > 0
                                   THEN Append(@, AssistantMessage({ids[k] : k \in 1..n}))
                                   ELSE @,
                      !.pending = ids,
                      !.next_id = @ + n,
                      !.pc = IF n > 0 THEN "tools" ELSE "finish"]
  /\ UNCHANGED historyFrame

\* the loop body for one tool call: the tool message goes to messages and,
\* by add_tool_result, to the session
HistoryExecuteTool ==
  /\ history.pc = "tools"
  /\ LET id == Head(history.pending)
     IN history' = [history EXCEPT
                      !.messages = Append(@, ToolMessage(id)),
                      !.stored = Append(@, ToolMessage(id)),
                      !.pending = Tail(@),
                      !.pc = IF Len(history.pending) = 1 THEN "loop" ELSE "tools"]
  /\ UNCHANGED historyFrame

\* after the loop: add_message("assistant", full_response)
HistoryFinishTurn ==
  /\ \/ history.pc = "finish"
     \/ history.pc = "loop" /\ ~(history.iterations < MAX_TOOL_ITERATIONS)
  /\ history' = [history EXCEPT !.stored = Append(@, AssistantMessage({})),
                                !.pc = "done"]
  /\ UNCHANGED historyFrame

HistoryNext ==
  \/ HistoryBeginTurn
  \/ \E n \in 0..MaxToolCalls : HistoryCall(n)
  \/ HistoryExecuteTool
  \/ HistoryFinishTurn

SpecHistory == Init /\ [][HistoryNext]_vars

\* ------------------------------------------------------- case numbers
MaxCaseNumbers == 2

\* values generate_case_number() can return
CaseNumbers == 1..MaxCaseNumbers

\* valid_statuses of update_case_status, and one that is not
CaseStatusInputs == {"open", "investigating", "resolved", "closed", "archived"}

\* the result of a dispatch tool of the session is folded in; the dict of
\* dispatch_patrol_unit carries the case number cn it generated (written to
\* police_dispatches.case_number, not to the cases table)
CaseFold(cn) ==
  /\ ret # NoRes
  /\ ret.op \in {"nearest", "multiple"}
  /\ sess' = process_tool_result(sess, AgentTool(cat, ret.op), AsToolResult(cat, ret))
  /\ casebook' = IF AsToolResult(cat, ret).success /\ AsToolResult(cat, ret).case_number
                 THEN [casebook EXCEPT !.recorded = cn]
                 ELSE casebook
  /\ ret' = NoRes
  /\ UNCHANGED << cat, fleetVars, thr, turn, calc, history, sessions >>

\* create_case, called as a tool: INSERT INTO cases (case_number is UNIQUE),
\* and the fold of its result
CreateCase(cn) ==
  /\ ret = NoRes
  /\ thr[1].pc = "idle"
  /\ LET ok == cn \notin casebook.cases
         result == [FailedResult EXCEPT !.success = ok, !.case_number = ok]
     IN /\ sess' = process_tool_result(sess, "create_case", result)
        /\ casebook' = IF ok
                       THEN [casebook EXCEPT !.cases = @ \cup {cn}, !.recorded = cn]
                       ELSE casebook
  /\ UNCHANGED << cat, fleetVars, thr, ret, turn, calc, history, sessions >>

\* update_case_status, called as a tool (recorded: the case number the
\* session holds at the call)
UpdateCaseStatus(cn, st) ==
  /\ ret = NoRes
  /\ thr[1].pc = "idle"
  /\ casebook' = [casebook EXCEPT !.last =
                    [ fn |-> "update_case_status", case_number |-> cn,
                      new_status |-> st, recorded |-> casebook.recorded,
                      success |-> (st \in {"open", "investigating", "resolved", "closed"}
                                   /\ cn \in casebook.cases)]]
  /\ UNCHANGED << cat, fleetVars, thr, ret, sess, turn, calc, history, sessions >>

\* one session using the dispatch tools and the case tools
CaseNext ==
  \/ \E p \in Points, f \in FilterInputs(cat) : DispatchNearest(1, p, f)
  \/ DispatchNearestFallback(1)
  \/ \E p \in Points, n \in UnitsNeededInputs : DispatchMultiple(1, p, n)
  \/ DispatchRead(1)
  \/ DispatchWrite(1)
  \/ \E cn \in CaseNumbers : CaseFold(cn)
  \/ \E cn \in CaseNumbers : CreateCase(cn)
  \/ \E cn \in CaseNumbers, st \in CaseStatusInputs : UpdateCaseStatus(cn, st)

SpecCase == Init /\ [][CaseNext]_vars

\* ------------------------------------------------- main.active_sessions
MaxSessions == 3

\* session ids a client sends: n stands for "session_n", 0 for an id of
\* another form
SessionIdInputs == 0..MaxSessions

sessionsFrame == << cat, status, stationAvail, dispatches, thr, ret, sess, turn, calc,
                    history, casebook >>

\* /chat and /chat/stream up to the choice of the orchestrator, for the id
\* the request is served under (created: the id was not in active_sessions)
ServeChat(id, anonymous) ==
  /\ id \in sessions.active \/ Cardinality(sessions.active) < MaxSessions
  /\ sessions' = [ active |-> sessions.active \cup {id},
                   last |-> [ fn |-> "chat", anonymous |-> anonymous, session_id |-> id,
                              created |-> (id \notin sessions.active) ] ]
  /\ UNCHANGED sessionsFrame

\* a request without session_id: f"session_{len(active_sessions) + 1}"
ChatAnonymous ==
  ServeChat(Cardinality(sessions.active) + 1, TRUE)

\* a request that carries a session_id
ChatWithId(id) ==
  ServeChat(id, FALSE)

\* DELETE /session/{session_id}
DeleteSession(id) ==
  /\ sessions' = [ active |-> sessions.active \ {id},
                   last |-> [ fn |-> "delete", anonymous |-> FALSE, session_id |-> id,
                              created |-> FALSE ] ]
  /\ UNCHANGED sessionsFrame

SessionsNext ==
  \/ ChatAnonymous
  \/ \E id \in SessionIdInputs : ChatWithId(id)
  \/ \E id \in SessionIdInputs : DeleteSession(id)

SpecSessions == Init /\ [][SessionsNext]_vars

\* ------------------------------------- dispatch_multiple on a busy fleet
\* the seeded fleet after update_*_status has set to busy every available
\* unit that is not in keep
BusyExcept(c, keep) ==
  [ u \in DOMAIN SeedStatus(c) |->
      IF SeedStatus(c)[u] = "available" /\ u \notin keep THEN "busy"
      ELSE SeedStatus(c)[u] ]

\* the station counters after those updates (each took one off its station)
CountersAfterBusy(keep) ==
  [ s \in DOMAIN SeedStationAvailable |->
      SeedStationAvailable[s]
        - Cardinality({ u \in DOMAIN SeedTruckStatus :
                          /\ SeedTruckStation[u] = s
                          /\ SeedTruckStatus[u] = "available"
                          /\ u \notin keep }) ]

\* a fleet of one of the categories cs of which at most MaxDispatches + 1
\* units are still available
InitBusyFleet(cs) ==
  /\ cat \in cs
  /\ \E keep \in SUBSET { u \in DOMAIN SeedStatus(cat) : SeedStatus(cat)[u] = "available" } :
       /\ Cardinality(keep) <= MaxDispatches + 1
       /\ status = BusyExcept(cat, keep)
       /\ stationAvail = IF cat = "fire" THEN CountersAfterBusy(keep) ELSE << >>
  /\ dispatches = << >>
  /\ thr = [t \in Threads |-> IdleLocal]
  /\ ret = NoRes
  /\ sess = NewSession
  /\ turn = IdleTurn
  /\ calc = NoCalc
  /\ history = NoHistory
  /\ casebook = NoCasebook
  /\ sessions = NoSessions

InitMultiple == InitBusyFleet({"fire", "police"})

\* one caller of dispatch_multiple_fire_units / dispatch_multiple_police_units
MultipleCallNext ==
  \/ \E p \in Points, n \in UnitsNeededInputs : DispatchMultiple(1, p, n)
  \/ DispatchRead(1)
  \/ DispatchWrite(1)
  \/ ReturnToCaller

SpecMultiple == InitMultiple /\ [][MultipleCallNext]_vars

\* ------------------------- dispatch_nearest_patrol_unit, rapid response
InitRapid == InitBusyFleet({"police"})

\* two sessions calling dispatch_nearest_patrol_unit(require_rapid_response=True)
RapidNext ==
  \/ \E t \in Threads, p \in Points : DispatchNearest(t, p, "rapid_response")
  \/ \E t \in Threads : DispatchNearestFallback(t)
  \/ \E t \in Threads : DispatchRead(t)
  \/ \E t \in Threads : DispatchWrite(t)
  \/ ReturnToCaller

SpecRapid == InitRapid /\ [][RapidNext]_vars

\* ------------------------------------------------------ severity scoring
\* str.lower() on the strings used as inputs
Lower(str) ==
  CASE str = "INDUSTRIAL" -> "industrial"
    [] str = "KIDNAP" -> "kidnap"
    [] str = "Fracture" -> "fracture"
    [] OTHER -> str

\* inputs of assess_fire_severity
FireInputs ==
  [ smoke_visible : BOOLEAN, flames_visible : BOOLEAN,
    building_type : {"residential", "commercial", "INDUSTRIAL"},
    people_trapped : {0, 1, 3, 6},
    floor_count : {1, 2, 3, 4, 5},
    spread_rate : {"unknown", "slow", "moderate", "fast"} ]

high_risk_buildings == {"industrial", "commercial", "forest"}

\* variant: three floors already count as a tall building
FloorScoreFromThree(floor_count) ==
  IF floor_count >= 3 THEN 2 ELSE IF floor_count > 1 THEN 1 ELSE 0

\* if floor_count > 3 ... elif floor_count > 1
FloorScore(floor_count) ==
  IF floor_count > 3 THEN 2 ELSE IF floor_count > 1 THEN 1 ELSE 0

\* variant: the scores of moderate and fast are exchanged
SpreadScoreSwapped(spread_rate) ==
  IF spread_rate = "fast" THEN 1 ELSE IF spread_rate = "moderate" THEN 3 ELSE 0

\* if spread_rate == 'fast' ... elif spread_rate == 'moderate'
SpreadScore(spread_rate) ==
  IF spread_rate = "fast" THEN 3 ELSE IF spread_rate = "moderate" THEN 1 ELSE 0

fire_severity_score(x) ==
  (IF x.smoke_visible THEN 1 ELSE 0)
  + (IF x.flames_visible THEN 2 ELSE 0)
  + (IF x.people_trapped > 0 THEN 3 ELSE 0)
  + (IF x.people_trapped > 5 THEN 2 ELSE 0)
  + (IF Lower(x.building_type) \in high_risk_buildings THEN 2 ELSE 0)
  + FloorScore(x.floor_count)
  + SpreadScore(x.spread_rate)

\* assess_fire_severity: the assessment dict
assess_fire_severity(x) ==
  LET severity_score == fire_severity_score(x)
      severity == IF severity_score >= 8 THEN "CRITICAL"
                  ELSE IF severity_score >= 5 THEN "HIGH"
                  ELSE IF severity_score >= 3 THEN "MEDIUM"
                  ELSE "LOW"
      units_recommended == IF severity_score >= 8 THEN 4
                           ELSE IF severity_score >= 5 THEN 2
                           ELSE 1
  IN [ severity_level |-> severity, severity_score |-> severity_score,
       units_recommended |-> units_recommended,
       evacuation_priority |-> IF x.people_trapped > 0 THEN "HIGH" ELSE "NORMAL" ]

\* the call assess_fire_severity(**calc.in) returns
AssessFire ==
  /\ calc.fn = "call_assess_fire_severity"
  /\ calc' = [fn |-> "assess_fire_severity", in |-> calc.in,
              out |-> assess_fire_severity(calc.in)]
  /\ UNCHANGED << cat, appVars, fleetVars, thr, ret, sess, turn >>

\* inputs of assess_threat_level
ThreatInputs ==
  [ emergency_type : {"kidnap", "KIDNAP", "extortion", "robbery", "assault",
                      "threat", "suspicious_activity", "stalking"},
    weapons_involved : BOOLEAN, hostage_situation : BOOLEAN,
    suspect_count : {0, 2, 3}, victim_count : {1, 2},
    suspect_present : BOOLEAN, violence_occurred : BOOLEAN ]

\* type_scores.get(emergency_type.lower(), 2)
type_scores(emergency_type) ==
  CASE Lower(emergency_type) = "kidnap" -> 4
    [] Lower(emergency_type) = "extortion" -> 2
    [] Lower(emergency_type) = "robbery" -> 3
    [] Lower(emergency_type) = "assault" -> 3
    [] Lower(emergency_type) = "threat" -> 1
    [] Lower(emergency_type) = "suspicious_activity" -> 1
    [] OTHER -> 2

\* variant: two suspects already add to the score
SuspectCountScoreFromTwo(suspect_count) ==
  IF suspect_count >= 2 THEN 2 ELSE 0

\* if suspect_count > 2: threat_score += 2
SuspectCountScore(suspect_count) ==
  IF suspect_count > 2 THEN 2 ELSE 0

\* variant: rapid response from MEDIUM upwards
RapidResponseFromMedium(threat_score) ==
  threat_score >= 4

\* require_rapid_response of the four branches
RapidResponse(threat_score) ==
  threat_score >= 7

threat_score_of(x) ==
  type_scores(x.emergency_type)
  + (IF x.weapons_involved THEN 4 ELSE 0)
  + (IF x.hostage_situation THEN 5 ELSE 0)
  + (IF x.suspect_present THEN 2 ELSE 0)
  + (IF x.violence_occurred THEN 3 ELSE 0)
  + SuspectCountScore(x.suspect_count)
  + (IF x.victim_count > 1 THEN 1 ELSE 0)

\* assess_threat_level: the assessment dict
assess_threat_level(x) ==
  LET threat_score == threat_score_of(x)
  IN [ threat_level |-> IF threat_score >= 10 THEN "CRITICAL"
                        ELSE IF threat_score >= 7 THEN "HIGH"
                        ELSE IF threat_score >= 4 THEN "MEDIUM"
                        ELSE "LOW",
       threat_score |-> threat_score,
       units_recommended |-> IF threat_score >= 10 THEN 4
                             ELSE IF threat_score >= 7 THEN 2
                             ELSE 1,
       require_rapid_response |-> RapidResponse(threat_score) ]

\* the call assess_threat_level(**calc.in) returns
AssessThreat ==
  /\ calc.fn = "call_assess_threat_level"
  /\ calc' = [fn |-> "assess_threat_level", in |-> calc.in,
              out |-> assess_threat_level(calc.in)]
  /\ UNCHANGED << cat, appVars, fleetVars, thr, ret, sess, turn >>

\* symptom strings, as the words they are made of
SymptomStrings ==
  { << "chest", "pain" >>, << "chest" >>, << "pain" >>, << "severe" >>,
    << "Fracture" >>, << "headache" >>, << "strokes" >> }

MaxSymptoms == 2

SymptomLists ==
  UNION { [1..n -> SymptomStrings] : n \in 0..MaxSymptoms }

\* inputs of assess_ambulance_need
AmbulanceNeedInputs ==
  [ symptoms : SymptomLists, patient_count : {1, 2, 3},
    patient_conscious : BOOLEAN, patient_breathing : BOOLEAN ]

critical_symptoms ==
  { << "chest", "pain" >>, << "heart", "attack" >>, << "stroke" >>,
    << "severe", "bleeding" >>, << "not", "breathing" >>, << "unconscious" >>,
    << "seizure" >>, << "severe", "burn" >>, << "head", "injury" >>,
    << "spinal", "injury" >>, << "drowning" >>, << "poisoning" >> }

moderate_symptoms ==
  { << "broken", "bone" >>, << "fracture" >>, << "deep", "cut" >>,
    << "difficulty", "breathing" >>, << "allergic", "reaction" >>,
    << "high", "fever" >>, << "severe", "pain" >>, << "fainting" >> }

RECURSIVE JoinLower(_)
\* ' '.join(symptoms_lower), as its words
JoinLower(symptoms) ==
  IF symptoms = << >> THEN << >>
  ELSE [i \in 1..Len(Head(symptoms)) |-> Lower(Head(symptoms)[i])]
       \o JoinLower(Tail(symptoms))

\* the word typed holds the keyword's word
WordHolds(typed, word) ==
  typed = word \/ (typed = "strokes" /\ word = "stroke")

\* keyword in text (substring test on the joined text)
KeywordIn(keyword, text) ==
  \E i \in 1..Len(text) :
    /\ i + Len(keyword) - 1 <= Len(text)
    /\ IF Len(keyword) = 1 THEN WordHolds(text[i], keyword[1])
       ELSE \A k \in 1..Len(keyword) : text[i + k - 1] = keyword[k]

has_critical(symptoms) ==
  \E cs \in critical_symptoms : KeywordIn(cs, JoinLower(symptoms))

has_moderate(symptoms) ==
  \E ms \in moderate_symptoms : KeywordIn(ms, JoinLower(symptoms))

\* variant: the moderate rule is tried before the critical one
assess_ambulance_need_moderate_first(x) ==
  IF has_moderate(x.symptoms) \/ x.patient_count > 2
  THEN [urgency_level |-> "HIGH", recommended_ambulance_type |-> "advanced"]
  ELSE IF ~x.patient_breathing \/ ~x.patient_conscious \/ has_critical(x.symptoms)
  THEN [urgency_level |-> "CRITICAL", recommended_ambulance_type |-> "icu"]
  ELSE [urgency_level |-> "MODERATE", recommended_ambulance_type |-> "basic"]

\* assess_ambulance_need: the assessment dict
assess_ambulance_need(x) ==
  IF ~x.patient_breathing \/ ~x.patient_conscious \/ has_critical(x.symptoms)
  THEN [urgency_level |-> "CRITICAL", recommended_ambulance_type |-> "icu"]
  ELSE IF has_moderate(x.symptoms) \/ x.patient_count > 2
  THEN [urgency_level |-> "HIGH", recommended_ambulance_type |-> "advanced"]
  ELSE [urgency_level |-> "MODERATE", recommended_ambulance_type |-> "basic"]

\* the call assess_ambulance_need(**calc.in) returns
AssessAmbulanceNeed ==
  /\ calc.fn = "call_assess_ambulance_need"
  /\ calc' = [fn |-> "assess_ambulance_need", in |-> calc.in,
              out |-> assess_ambulance_need(calc.in)]
  /\ UNCHANGED << cat, appVars, fleetVars, thr, ret, sess, turn >>

\* a call of one assessment function is about to be made
InitAssess ==
  /\ cat \in Cats
  /\ status = SeedStatus(cat)
  /\ stationAvail = IF cat = "fire" THEN SeedStationAvailable ELSE << >>
  /\ dispatches = << >>
  /\ thr = [t \in Threads |-> IdleLocal]
  /\ ret = NoRes
  /\ sess = NewSession
  /\ history = NoHistory
  /\ casebook = NoCasebook
  /\ sessions = NoSessions
  /\ turn = IdleTurn
  /\ calc \in [fn : {"call_assess_fire_severity"}, in : FireInputs]
             \cup [fn : {"call_assess_threat_level"}, in : ThreatInputs]
             \cup [fn : {"call_assess_ambulance_need"}, in : AmbulanceNeedInputs]

AssessNext ==
  \/ AssessFire
  \/ AssessThreat
  \/ AssessAmbulanceNeed

SpecAssess == InitAssess /\ [][AssessNext]_vars

\* order of the tiers of the three assessments
TierRank(tier) ==
  CASE tier = "LOW" -> 0
    [] tier = "MEDIUM" -> 1
    [] tier = "MODERATE" -> 1
    [] tier = "HIGH" -> 2
    [] tier = "CRITICAL" -> 3


\* ------------------------------------------------ properties (session)
\* C13: should_dispatch() is true iff the location has latitude and longitude
\* set, the emergency type is not unknown and no dispatch has been recorded;
\* once a dispatch is recorded it is false for the rest of the session.
C13_ShouldDispatchIffReadyAndNoDispatch ==
  [][ /\ should_dispatch(sess)
           <=> ( /\ sess.location.set
                 /\ sess.emergency_type # "unknown"
                 /\ sess.dispatches = << >> )
      /\ should_dispatch(sess')
           <=> ( /\ sess'.location.set
                 /\ sess'.emergency_type # "unknown"
                 /\ sess'.dispatches = << >> )
      /\ (sess.dispatches # << >> /\ (sess.live \/ ~sess'.live))
           => ~should_dispatch(sess') ]_vars

\* a located, classified session with a recorded dispatch: should_dispatch()
\* has turned false
C13_Witness ==
  /\ sess.live
  /\ sess.location.set
  /\ sess.emergency_type # "unknown"
  /\ Len(sess.dispatches) = 1
  /\ ~should_dispatch(sess)

\* C15: once the emergency type of a session is medical, fire or police it
\* never changes again in that session, whatever tool results are folded.
C15_TypeSetOnce ==
  [][ (sess.emergency_type # "unknown" /\ (sess.live \/ ~sess'.live))
        => sess'.emergency_type = sess.emergency_type ]_vars

\* C16: emergency_services_dispatched is true iff the dispatch history of the
\* session is non-empty.
C16_FlagIffHistoryNonEmpty ==
  sess.emergency_services_dispatched <=> sess.dispatches # << >>

\* the first dispatch record of a session, with the flag raised
C16_Witness ==
  /\ sess.emergency_services_dispatched
  /\ Len(sess.dispatches) = 1
  /\ sess.dispatches[1].status = "dispatched"

\* C18: folding a successful dispatch tool result (the step that appends a
\* dispatch record) leaves the phase at providing_guidance or later, whatever
\* the phase was, initial included; a phase that was already
\* providing_guidance or later is unchanged.
C18_DispatchFoldReachesGuidance ==
  [][ Len(sess'.dispatches) > Len(sess.dispatches)
        => /\ PhaseIndex(sess'.phase) >= PhaseIndex("providing_guidance")
           /\ PhaseIndex(sess.phase) >= PhaseIndex("providing_guidance")
                => sess'.phase = sess.phase
           /\ PhaseIndex(sess.phase) < PhaseIndex("providing_guidance")
                => sess'.phase = "providing_guidance" ]_vars

\* a dispatch folded into a session that was still in its initial phase
C18_Witness ==
  /\ sess.live
  /\ sess.phase = "providing_guidance"
  /\ sess.emergency_type = "unknown"
  /\ Len(sess.dispatches) = 1

\* C19: no tool result moves a session into monitoring or resolved: folding
\* tool results reaches providing_guidance at most, and a session becomes
\* resolved only in the step that ends it.
C19_ToolsStopAtGuidance ==
  [][ /\ sess'.phase # "monitoring"
      /\ (sess'.phase = "resolved" /\ sess.phase # "resolved")
           => (sess.live /\ sess' = end_session(sess))
      /\ sess'.live => sess'.phase # "resolved" ]_vars

\* a session that tool results had taken to providing_guidance with two
\* dispatches, resolved by end_session
C19_Witness ==
  /\ ~sess.live
  /\ sess.phase = "resolved"
  /\ Len(sess.dispatches) = 2

\* C20: get_or_create_session returns the stored session while the id is in
\* the store and makes a fresh session (initial phase, empty history) only
\* when it is not; end_session sets the phase to resolved and removes the
\* session, after which get_or_create_session starts again from a fresh one.
C20_CreateOrFetch ==
  [][ /\ sess.live => get_or_create_session(sess) = sess
      /\ ~sess.live => get_or_create_session(sess) = NewSession
      /\ (~sess.live /\ sess'.live) => sess' = NewSession
      /\ (sess.live /\ ~sess'.live)
           => sess' = [sess EXCEPT !.phase = "resolved", !.live = FALSE]
      /\ (sess.live /\ sess'.live)
           => /\ Len(sess'.dispatches) >= Len(sess.dispatches)
              /\ PhaseIndex(sess'.phase) >= PhaseIndex(sess.phase)
              /\ sess.location.set => sess'.location.set
              /\ sess.emergency_type # "unknown" => sess'.emergency_type # "unknown" ]_vars

\* an ended session that had a location and a dispatch: it is out of the
\* store, and the next get_or_create_session yields a fresh one
C20_Witness ==
  /\ ~sess.live
  /\ sess.phase = "resolved"
  /\ sess.location.set
  /\ Len(sess.dispatches) = 1
  /\ get_or_create_session(sess) = NewSession

\* C12: whatever the collaborator answers, a turn makes at most 5 collaborator
\* calls and then ends: it yields the text of the first response without
\* tool calls, or, when all 5 responses asked for tools, the empty text after
\* the tools of all 5 iterations were executed; either way the turn has
\* appended exactly one user message and one assistant message.
C12_TurnInv ==
  /\ turn.calls <= MAX_TOOL_ITERATIONS
  /\ turn.calls = turn.iterations
  /\ turn.pc # "idle" => turn.user = 1
  /\ turn.pc \notin {"idle", "done"} => (turn.assistant = 0 /\ turn.yielded = "none")
  /\ turn.pc = "done"
       => /\ turn.assistant = 1
          /\ IF turn.last_tools = 0
             THEN /\ turn.yielded = turn.last_content
                  /\ turn.executed = turn.calls - 1
             ELSE /\ turn.calls = MAX_TOOL_ITERATIONS
                  /\ turn.executed = MAX_TOOL_ITERATIONS
                  /\ turn.yielded = ""

C14_DispatchNotGated ==
  [][ /\ (ret.op \in {"nearest", "multiple"} /\ ret.success /\ ret' = NoRes)
           => /\ Len(sess'.dispatches) = Len(sess.dispatches) + 1
              /\ sess'.active_dispatch = Len(sess'.dispatches)
              /\ sess'.dispatches[Len(sess'.dispatches)].dispatch_id
                   = (IF ret.op = "nearest" THEN ret.dispatch_id ELSE 0)
              /\ sess'.emergency_services_dispatched
      /\ (thr[1].pc = "write" /\ Stepped(1))
           => /\ Len(dispatches') = Len(dispatches) + 1
              /\ status'[thr[1].unit] = "dispatched" ]_vars

\* a session without location and emergency type holds two dispatch records
\* for two different units, both committed in the fleet store
C14_Witness ==
  /\ ~sess.location.set
  /\ sess.emergency_type = "unknown"
  /\ Len(sess.dispatches) = 2
  /\ sess.dispatches[1].dispatch_id = 1
  /\ sess.dispatches[2].dispatch_id = 2
  /\ Len(dispatches) = 2
  /\ dispatches[1].unit # dispatches[2].unit
  /\ status[dispatches[1].unit] = "dispatched"
  /\ status[dispatches[2].unit] = "dispatched"

\* C17: active_dispatch is None when the session's history holds no record
\* whose dispatch is still open, and otherwise references the most recently
\* appended record whose dispatch is not completed / resolved, also after the
\* dispatch has been completed in the fleet store.
C17_ActiveIsLatestOpenRecord ==
  LET Terminal(i) ==
        LET id == sess.dispatches[i].dispatch_id
        IN id \in DOMAIN dispatches /\ dispatches[id].status # "dispatched"
      open == {i \in DOMAIN sess.dispatches : ~Terminal(i)}
  IN sess.active_dispatch
       = IF open = {} THEN 0 ELSE CHOOSE i \in open : \A j \in open : j <= i

\* C21: in every iteration of the tool loop the system prompt handed to the
\* collaborator is built from the session as it is at the start of that
\* iteration, so what iteration k folded in shows in the prompt of
\* iteration k+1.
C21_PromptBuiltEachIteration ==
  [][ turn'.calls = turn.calls + 1
        => turn.system_prompt = build_system_prompt(sess) ]_vars

\* C22: a tool result without success = true leaves the session's phase,
\* emergency type, location, domain info, dispatch history, active dispatch
\* and flags as they are; the tool message is still appended to the history.
\* (C22_FailedFoldIsIdentity: folding any failed result is the identity;
\* C22_FailedResultChangesNothing adds the steps of the tool loop.)
C22_FailedFoldIsIdentity ==
  \A tool \in ToolNames \cup {"unknown_tool"} :
    \A r \in ToolResults(tool) :
      ~r.success => process_tool_result(sess, tool, r) = sess

C22_FailedResultChangesNothing ==
  /\ []C22_FailedFoldIsIdentity
  /\ [][ turn.pc = "tools"
           => /\ turn'.tool = turn.tool + 1
              /\ sess' # sess
                   => \E tool \in LoopTools : \E r \in ToolResults(tool) :
                        r.success /\ sess' = process_tool_result(sess, tool, r) ]_vars

\* two tool calls of a turn failed: two tool messages were appended and the
\* session is as it was created
C22_Witness ==
  /\ turn.tool = 2
  /\ turn.iterations = 1
  /\ sess = NewSession

\* C23: a tool call whose argument payload is not well-formed JSON is handled
\* as a failed call with an empty argument set: for every tool of the catalog
\* the recorded result has success = false and the session is not changed.
C23_MalformedPayloadFails ==
  [][ (calc'.fn = "tool_call" /\ ~calc'.wellformed)
        => /\ calc'.arguments = "empty"
           /\ ~calc'.success
           /\ sess' = sess ]_vars

\* C24: the stored location of a session always has latitude in [-90, 90]
\* and longitude in [-180, 180]: out-of-range coordinates are rejected by the
\* set_user_location tool and by the orchestrator's set_user_location alike.
C24_StoredLocationInRange ==
  sess.location.set
    => /\ 0 - 90 <= sess.location.latitude /\ sess.location.latitude <= 90
       /\ 0 - 180 <= sess.location.longitude /\ sess.location.longitude <= 180

\* C25: update_fire_truck_status sets the truck's status and changes its own
\* station's available_units by +1 exactly when the status it replaces is
\* not available and the new one is, by -1 exactly when the status it
\* replaces is available and the new one is not, and by 0 otherwise; no other
\* station's counter and no other truck's status changes.
C25_CounterFollowsStatusChange ==
  [][ \A t \in Threads :
        (thr[t].pc = "uwrite" /\ Stepped(t))
          => LET u == thr[t].unit
                 st == SeedTruckStation[u]
                 old == status[u]
                 new == thr[t].newst
             IN /\ status' = [status EXCEPT ![u] = new]
                /\ stationAvail'
                     = [stationAvail EXCEPT
                          ![st] = @ + (IF old # "available" /\ new = "available" THEN 1
                                       ELSE IF old = "available" /\ new # "available"
                                       THEN 0 - 1
                                       ELSE 0)] ]_vars

\* C26: the assessments are functions of their inputs, and one aggravating
\* change of one input never lowers the result: for fire and police the score,
\* the tier and the units recommended; for medical the tier, when conscious or
\* breathing becomes false, a symptom is added or patient_count is raised.
SpreadRank(spread_rate) ==
  CASE spread_rate = "fast" -> 2
    [] spread_rate = "moderate" -> 1
    [] OTHER -> 0

C26_FireAggravated(x) ==
  { [x EXCEPT !.smoke_visible = TRUE], [x EXCEPT !.flames_visible = TRUE] }
  \cup { z \in FireInputs :
           \/ z.people_trapped > x.people_trapped
                /\ z = [x EXCEPT !.people_trapped = z.people_trapped]
           \/ z.floor_count > x.floor_count
                /\ z = [x EXCEPT !.floor_count = z.floor_count]
           \/ SpreadRank(z.spread_rate) > SpreadRank(x.spread_rate)
                /\ z = [x EXCEPT !.spread_rate = z.spread_rate]
           \/ Lower(x.building_type) \notin high_risk_buildings
                /\ Lower(z.building_type) \in high_risk_buildings
                /\ z = [x EXCEPT !.building_type = z.building_type] }

C26_ThreatAggravated(x) ==
  { [x EXCEPT !.weapons_involved = TRUE], [x EXCEPT !.hostage_situation = TRUE],
    [x EXCEPT !.suspect_present = TRUE], [x EXCEPT !.violence_occurred = TRUE] }
  \cup { z \in ThreatInputs :
           \/ z.suspect_count > x.suspect_count
                /\ z = [x EXCEPT !.suspect_count = z.suspect_count]
           \/ z.victim_count > x.victim_count
                /\ z = [x EXCEPT !.victim_count = z.victim_count] }

C26_AmbulanceNeedAggravated(x) ==
  { [x EXCEPT !.patient_conscious = FALSE], [x EXCEPT !.patient_breathing = FALSE] }
  \cup { [x EXCEPT !.symptoms = Append(x.symptoms, sym)] : sym \in SymptomStrings }
  \cup { [x EXCEPT !.patient_count = n] : n \in {m \in 1..3 : m > x.patient_count} }

C27_Scenario ==
  [ emergency_type |-> "kidnap", weapons_involved |-> TRUE,
    hostage_situation |-> TRUE, suspect_count |-> 2, victim_count |-> 1,
    suspect_present |-> FALSE, violence_occurred |-> FALSE ]

C27_KidnapScoresFifteen ==
  (calc.fn = "assess_threat_level" /\ calc.in = C27_Scenario) =>
    /\ calc.out.threat_score = 15
    /\ calc.out.threat_level = "CRITICAL"
    /\ calc.out.require_rapid_response

\* C27 (amended): the same call scores 13 (4 + 4 + 5; two suspects are not
\* more than two), is CRITICAL and requires rapid response.
C27_KidnapScoresThirteen ==
  (calc.fn = "assess_threat_level" /\ calc.in = C27_Scenario) =>
    /\ calc.out.threat_score = 13
    /\ calc.out.threat_level = "CRITICAL"
    /\ calc.out.require_rapid_response

C27_Witness ==
  /\ calc.fn = "assess_threat_level"
  /\ calc.in = C27_Scenario
  /\ calc.out.units_recommended = 4

\* C28: assess_fire_severity scores smoke 1, flames 2, trapped > 0 3,
\* trapped > 5 2 more, a high-risk building 2, floors > 3 2 or floors 2..3 1,
\* spread fast 3 or moderate 1; score >= 8 is CRITICAL with 4 units, >= 5 HIGH
\* with 2, >= 3 MEDIUM with 1, else LOW with 1; evacuation priority is HIGH
\* exactly when people are trapped.  Smoke, flames, commercial, 3 trapped,
\* 5 floors, moderate spread gives 11, CRITICAL, 4 units.
C28_FireScoreAndTier ==
  calc.fn = "assess_fire_severity" =>
    LET x == calc.in
        y == calc.out
        sc == (IF x.smoke_visible THEN 1 ELSE 0) + (IF x.flames_visible THEN 2 ELSE 0)
              + (IF x.people_trapped >= 1 THEN 3 ELSE 0)
              + (IF x.people_trapped >= 6 THEN 2 ELSE 0)
              + (IF x.building_type \in {"commercial", "INDUSTRIAL"} THEN 2 ELSE 0)
              + (CASE x.floor_count \in {4, 5} -> 2
                   [] x.floor_count \in {2, 3} -> 1
                   [] OTHER -> 0)
              + (CASE x.spread_rate = "fast" -> 3
                   [] x.spread_rate = "moderate" -> 1
                   [] OTHER -> 0)
    IN /\ y.severity_score = sc
       /\ sc >= 8 => (y.severity_level = "CRITICAL" /\ y.units_recommended = 4)
       /\ (sc >= 5 /\ sc < 8) => (y.severity_level = "HIGH" /\ y.units_recommended = 2)
       /\ (sc >= 3 /\ sc < 5) => (y.severity_level = "MEDIUM" /\ y.units_recommended = 1)
       /\ sc < 3 => (y.severity_level = "LOW" /\ y.units_recommended = 1)
       /\ y.evacuation_priority = "HIGH" <=> x.people_trapped > 0
       /\ x = [ smoke_visible |-> TRUE, flames_visible |-> TRUE,
                building_type |-> "commercial", people_trapped |-> 3,
                floor_count |-> 5, spread_rate |-> "moderate" ]
            => (y.severity_score = 11 /\ y.severity_level = "CRITICAL"
                /\ y.units_recommended = 4)

\* the scenario: smoke, flames, commercial building, 3 trapped, 5 floors,
\* moderate spread
C28_Witness ==
  /\ calc.fn = "assess_fire_severity"
  /\ calc.in = [ smoke_visible |-> TRUE, flames_visible |-> TRUE,
                 building_type |-> "commercial", people_trapped |-> 3,
                 floor_count |-> 5, spread_rate |-> "moderate" ]
  /\ calc.out.severity_score = 11

\* C29: assess_ambulance_need takes the first rule that matches: not
\* breathing, not conscious or a critical keyword gives CRITICAL/icu; else a
\* moderate keyword or more than two patients gives HIGH/advanced; else
\* MODERATE/basic.  [chest pain] with good vitals gives CRITICAL/icu.
C29_Text(x) ==
  JoinLower(x.symptoms)

C29_CriticalRule(x) ==
  \/ ~x.patient_breathing
  \/ ~x.patient_conscious
  \/ \E i \in 1..Len(C29_Text(x)) : C29_Text(x)[i] = "strokes"
  \/ \E i \in 1..(Len(C29_Text(x)) - 1) :
       C29_Text(x)[i] = "chest" /\ C29_Text(x)[i + 1] = "pain"

C29_ModerateRule(x) ==
  \/ x.patient_count > 2
  \/ \E i \in 1..Len(C29_Text(x)) : C29_Text(x)[i] = "fracture"
  \/ \E i \in 1..(Len(C29_Text(x)) - 1) :
       C29_Text(x)[i] = "severe" /\ C29_Text(x)[i + 1] = "pain"

C29_FirstMatchWins ==
  calc.fn = "assess_ambulance_need" =>
    LET x == calc.in
        y == calc.out
    IN /\ C29_CriticalRule(x) =>
            (y.urgency_level = "CRITICAL" /\ y.recommended_ambulance_type = "icu")
       /\ (~C29_CriticalRule(x) /\ C29_ModerateRule(x)) =>
            (y.urgency_level = "HIGH" /\ y.recommended_ambulance_type = "advanced")
       /\ (~C29_CriticalRule(x) /\ ~C29_ModerateRule(x)) =>
            (y.urgency_level = "MODERATE" /\ y.recommended_ambulance_type = "basic")
       /\ (x.symptoms = << << "chest", "pain" >> >> /\ x.patient_conscious
            /\ x.patient_breathing) =>
            (y.urgency_level = "CRITICAL" /\ y.recommended_ambulance_type = "icu")

\* chest pain and a fracture, three patients, good vitals: both rules match
C29_Witness ==
  /\ calc.fn = "assess_ambulance_need"
  /\ calc.in.symptoms = << << "chest", "pain" >>, << "Fracture" >> >>
  /\ calc.in.patient_count = 3
  /\ calc.in.patient_conscious /\ calc.in.patient_breathing
  /\ calc.out.urgency_level = "CRITICAL"

\* C30: the threat score is the subtype base (kidnap 4, robbery 3, assault 3,
\* extortion 2, threat 1, suspicious_activity 1, else 2) + weapons 4 + hostage
\* 5 + suspect present 2 + violence 3 + suspect_count > 2 2 + victim_count > 1
\* 1; >= 10 is CRITICAL, 4 units, rapid; >= 7 HIGH, 2 units, rapid; >= 4
\* MEDIUM, 1 unit; else LOW, 1 unit; MEDIUM and LOW never require rapid
\* response.
C30_Base(emergency_type) ==
  CASE emergency_type \in {"kidnap", "KIDNAP"} -> 4
    [] emergency_type \in {"robbery", "assault"} -> 3
    [] emergency_type = "extortion" -> 2
    [] emergency_type \in {"threat", "suspicious_activity"} -> 1
    [] OTHER -> 2

C30_ThreatScoreAndTier ==
  calc.fn = "assess_threat_level" =>
    LET x == calc.in
        y == calc.out
        sc == C30_Base(x.emergency_type)
              + (IF x.weapons_involved THEN 4 ELSE 0)
              + (IF x.hostage_situation THEN 5 ELSE 0)
              + (IF x.suspect_present THEN 2 ELSE 0)
              + (IF x.violence_occurred THEN 3 ELSE 0)
              + (IF x.suspect_count >= 3 THEN 2 ELSE 0)
              + (IF x.victim_count >= 2 THEN 1 ELSE 0)
    IN /\ y.threat_score = sc
       /\ sc >= 10 => (y.threat_level = "CRITICAL" /\ y.units_recommended = 4
                       /\ y.require_rapid_response)
       /\ (sc >= 7 /\ sc < 10) => (y.threat_level = "HIGH" /\ y.units_recommended = 2
                                   /\ y.require_rapid_response)
       /\ (sc >= 4 /\ sc < 7) => (y.threat_level = "MEDIUM" /\ y.units_recommended = 1)
       /\ sc < 4 => (y.threat_level = "LOW" /\ y.units_recommended = 1)
       /\ y.threat_level \in {"MEDIUM", "LOW"} => ~y.require_rapid_response

\* a robbery with three suspects still present: 3 + 2 + 2 = 7, HIGH
C30_Witness ==
  /\ calc.fn = "assess_threat_level"
  /\ calc.in.emergency_type = "robbery"
  /\ calc.in.suspect_count = 3
  /\ calc.in.suspect_present
  /\ calc.out.threat_score = 7
  /\ calc.out.threat_level = "HIGH"
  /\ calc.out.require_rapid_response

\* C31: every successful dispatch-tool result folded into the session appends
\* one record per unit dispatched, each with the dispatch_id of a row of the
\* fleet's dispatch table (whose unit and ETA it then carries); also for
\* dispatch_multiple_fire_units and dispatch_multiple_police_units.
C31_UnitsDispatched(rt) ==
  IF rt.op = "multiple" THEN Len(rt.done) ELSE 1

C31_OneRecordPerUnit ==
  [][ (ret # NoRes /\ ret' = NoRes /\ ret.op \in {"nearest", "multiple"} /\ ret.success) =>
        /\ Len(sess'.dispatches) = Len(sess.dispatches) + C31_UnitsDispatched(ret)
        /\ \A i \in (Len(sess.dispatches) + 1)..Len(sess'.dispatches) :
             sess'.dispatches[i].dispatch_id \in 1..Len(dispatches) ]_vars

\* C32: in every category, a unit dispatched through the registered tools
\* is brought back to available by the registered tools.
C32_DispatchedUnitReturns ==
  \A u \in RegistryUnitIds :
    (u \in DOMAIN status /\ status[u] = "dispatched")
      ~> (u \in DOMAIN status /\ status[u] = "available")

\* C33: the phase is INITIAL exactly when the emergency type is unknown.
C33_InitialIffUnknown ==
  sess.phase = "initial" <=> sess.emergency_type = "unknown"

\* C34: once a tool result has been folded the phase is never dispatching:
\* no state between two steps of the tool loop has it, so no system prompt
\* is built from it and no response is returned with it.
C34_NeverLeftDispatching ==
  /\ sess.phase # "dispatching"
  /\ turn.system_prompt # NoPrompt => turn.system_prompt.phase # "dispatching"

\* a turn whose prompt was built after a dispatch had been folded into a
\* classified session, and which has returned its response
C34_Witness ==
  /\ turn.pc = "done"
  /\ turn.system_prompt # NoPrompt
  /\ turn.system_prompt.phase = "providing_guidance"
  /\ turn.system_prompt.emergency_type = "medical"
  /\ turn.system_prompt.dispatched
  /\ turn.yielded = "text"

\* C35: when the set_user_location tool returns success, the session's
\* stored location afterwards is the latitude and longitude of the result,
\* latitude 0 and longitude 0 included.
C35_SuccessfulLocationStored ==
  [][ (calc' # calc /\ calc'.fn = "set_user_location" /\ calc'.success) =>
        sess'.location = [ set |-> TRUE, latitude |-> calc'.latitude,
                           longitude |-> calc'.longitude ] ]_vars

\* C36: in every message list handed to the collaborator, each tool message
\* comes after an assistant message whose tool_calls hold its tool_call_id,
\* also in the turns after the one that executed the tool.
C36_ToolMessageAnswersACall ==
  \A i \in DOMAIN history.handed :
    history.handed[i].role = "tool" =>
      \E j \in 1..(i - 1) :
        /\ history.handed[j].role = "assistant"
        /\ history.handed[i].tool_call_id \in history.handed[j].tool_calls

\* C37: a case number the session holds, from a police dispatch or from
\* create_case, is in the cases table: update_case_status with it and a valid
\* status succeeds.
C37_RecordedCaseCanBeUpdated ==
  ( /\ casebook.last.fn = "update_case_status"
    /\ casebook.last.recorded # 0
    /\ casebook.last.case_number = casebook.last.recorded
    /\ casebook.last.new_status \in {"open", "investigating", "resolved", "closed"} )
    => casebook.last.success

\* C38: a chat request without session_id is served by a session created
\* for it: the id generated for it is not the id of a live session.
C38_AnonymousGetsNewSession ==
  (sessions.last.fn = "chat" /\ sessions.last.anonymous) => sessions.last.created

\* C39: dispatch_multiple_units dispatches at most max(units_needed, 0)
\* units, for negative units_needed too.
C39_AtMostRequested ==
  [][ ret'.op = "multiple"
        => Len(ret'.done) <= (IF ret'.requested > 0 THEN ret'.requested ELSE 0) ]_vars

\* C40 as stated: dispatch_nearest_patrol_unit with require_rapid_response
\* dispatches the nearest available rapid_response unit within 20 km when
\* there is one, else the nearest available unit of any type within 20 km,
\* and fails only when no available unit is within 20 km.
C40_RapidAtCommit ==
  [][ \A t \in Threads :
        (Stepped(t) /\ ret'.op = "nearest" /\ thr[t].filter = "rapid_response")
          => LET l == thr[t]
                 rapid == { v \in UnitIds(cat) :
                              Qualifies(cat, status, l.point, PoliceNearestRadiusKm,
                                        "rapid_response", v) }
                 any == { v \in UnitIds(cat) :
                            Qualifies(cat, status, l.point, PoliceNearestRadiusKm,
                                      "none", v) }
                 pool == IF rapid # {} THEN rapid ELSE any
             IN IF ret'.success
                THEN /\ ret'.unit \in pool
                     /\ \A v \in pool :
                          calculate_distance(cat, l.point, v)
                            >= calculate_distance(cat, l.point, ret'.unit)
                ELSE any = {} ]_vars

====
